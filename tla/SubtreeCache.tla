----------------------------- MODULE SubtreeCache -----------------------------
(***************************************************************************)
(* get_subtree_for (rbac/hierarchy.py): the subtree below a user's code,   *)
(* cached for TTL.                                                         *)
(*                                                                         *)
(* What resolve_subtree makes of the rows is the matter of module Subtree; *)
(* here a subtree is the version of the hierarchy it was resolved from.    *)
(* Requests interleave at the await of the fetch, which may take long,     *)
(* overtake another one, or fail.  Users without a code or without         *)
(* restrictions have no subtree and do not come here.                      *)
(***************************************************************************)
EXTENDS Naturals

CONSTANTS
  Coroutine,   \* concurrent calls
  Root,        \* the codes they are for
  TTL,         \* _CACHE_TTL_S
  MaxNow,      \* bound on the clock
  MaxVersion,  \* bound on changes of the hierarchy
  Nothing

ASSUME SubtreeCacheAssumption ==
  /\ TTL \in Nat \ {0} /\ MaxNow \in Nat /\ MaxVersion \in Nat
  /\ Nothing \notin Nat
  /\ Nothing \notin [expiry : Nat, subtree : Nat]

Version == 0..MaxVersion

VARIABLES
  clock,       \* time.monotonic()
  version,     \* the hierarchy in MySQL
  superseded,  \* history: when a version was replaced
  cache,       \* _CACHE
  call         \* the calls of get_subtree_for

cacheVars == <<clock, version, superseded, cache, call>>

Entry == [expiry : Nat, subtree : Version]
\* asked is the local variable now; subtree what the last call returned.
CallState == [pc : {"idle", "fetch", "resolve"}, root : Root, asked : Nat,
         rows : Version, subtree : Version \cup {Nothing}]

CacheTypeOK ==
  /\ clock \in Nat /\ version \in Version
  /\ superseded \in [Version -> Nat \cup {Nothing}]
  /\ cache \in [Root -> Entry \cup {Nothing}]
  /\ call \in [Coroutine -> CallState]

CacheInit ==
  /\ clock = 0 /\ version = 0
  /\ superseded = [v \in Version |-> Nothing]
  /\ cache = [k \in Root |-> Nothing]
  /\ call \in [Coroutine -> {[pc |-> "idle", root |-> k, asked |-> 0, rows |-> 0,
                            subtree |-> Nothing] : k \in Root}]

\* Mistake: entries never expire.
Valid_Forever(k) == cache[k] # Nothing

Valid(k) == IF cache[k] = Nothing THEN FALSE ELSE cache[k].expiry > clock

\* The part of the call before the await.
Ask(r, k) ==
  /\ call[r].pc = "idle"
  /\ call' = [call EXCEPT
       ![r] = IF Valid(k)
              THEN [@ EXCEPT !.root = k, !.asked = clock, !.subtree = cache[k].subtree]
              ELSE [@ EXCEPT !.root = k, !.asked = clock, !.subtree = Nothing, !.pc = "fetch"]]
  /\ UNCHANGED <<clock, version, superseded, cache>>

\* MySQL answers; the coroutine has yet to be resumed.
Read(r) ==
  /\ call[r].pc = "fetch"
  /\ call' = [call EXCEPT ![r].pc = "resolve", ![r].rows = version]
  /\ UNCHANGED <<clock, version, superseded, cache>>

ExpiryOf(r) == call[r].asked + TTL

EntryOf(r) == [expiry |-> ExpiryOf(r), subtree |-> call[r].rows]

\* The part of the call after the await.
Store(r) ==
  /\ call[r].pc = "resolve"
  /\ cache' = [cache EXCEPT ![call[r].root] = EntryOf(r)]
  /\ call' = [call EXCEPT ![r].pc = "idle", ![r].subtree = call[r].rows]
  /\ UNCHANGED <<clock, version, superseded>>

\* The fetch raises.
Fail(r) ==
  /\ call[r].pc \in {"fetch", "resolve"}
  /\ call' = [call EXCEPT ![r].pc = "idle"]
  /\ UNCHANGED <<clock, version, superseded, cache>>

\* Somebody changes the hierarchy.
Reorganise ==
  /\ version < MaxVersion
  /\ version' = version + 1
  /\ superseded' = [superseded EXCEPT ![version] = clock]
  /\ UNCHANGED <<clock, cache, call>>

Tick ==
  /\ clock < MaxNow
  /\ clock' = clock + 1
  /\ UNCHANGED <<version, superseded, cache, call>>

CacheNext ==
  \/ \E r \in Coroutine : \/ \E k \in Root : Ask(r, k)
                        \/ Read(r) \/ Store(r) \/ Fail(r)
  \/ Reorganise
  \/ Tick

CacheSpec == CacheInit /\ [][CacheNext]_cacheVars

-----------------------------------------------------------------------------
(* What a call returns was the hierarchy less than TTL before it was made, *)
(* or is newer, however long fetches take and in whatever order they end:  *)
(* a user that lost a subordinate does not see them for longer             *)
(* (get_subtree_for).                                                      *)
AtMostTTLOld ==
  \A r \in Coroutine : call[r].subtree # Nothing =>
    \/ superseded[call[r].subtree] = Nothing
    \/ superseded[call[r].subtree] + TTL > call[r].asked

(* Also an entry that a slow fetch overwrites with older rows is no older  *)
(* than its expiry promises: until then, its rows are less than TTL old    *)
(* (get_subtree_for).                                                      *)
EntriesKeepTheirPromise ==
  \A k \in Root : cache[k] # Nothing =>
    \/ superseded[cache[k].subtree] = Nothing
    \/ superseded[cache[k].subtree] + TTL >= cache[k].expiry
=============================================================================
