--------------------------------- MODULE Auth ---------------------------------
(***************************************************************************)
(* Logins, bearer tokens and the user a request acts as (api/auth.py,      *)
(* auth/jwt.py, deps.py get_current_user), while the users' rows change:   *)
(* the seeding script upserts them by name, an administrator edits them.   *)
(*                                                                         *)
(* A request decodes its token first and then reads the row of the user,   *)
(* with an await between the two; a login reads the row and then issues    *)
(* the token.  Tokens are signed: one that was not issued here does not    *)
(* decode.  A bcrypt hash is the password it was made of.                  *)
(***************************************************************************)
EXTENDS Naturals, FiniteSets

CONSTANTS
  Id,            \* users.id, a random UUID
  Username, Password,
  SeedName,      \* SEED_PROFILES
  SeedPassword,
  Lifetime,      \* jwt_expiry_minutes
  Visitor,       \* concurrent requests
  FirstUsers,    \* contents of the table at first
  MaxTime,       \* bound on the clock
  MaxLogins,     \* bound on tokens
  MaxEdits,      \* bound on changes of the table
  Nobody

Account == [username : Username, password : Password, is_active : BOOLEAN]
Token == [sub : Id, username : Username, exp : Nat]

ASSUME AuthAssumption ==
  /\ Lifetime \in Nat \ {0}
  /\ MaxTime \in Nat /\ MaxLogins \in Nat /\ MaxEdits \in Nat
  /\ SeedName \subseteq Username /\ SeedPassword \in Password
  /\ FirstUsers \subseteq [Id -> Account \cup {Nobody}]
  /\ Nobody \notin Account /\ Nobody \notin Id /\ Nobody \notin Token

VARIABLES
  minute,   \* datetime.now
  users,    \* the table, Nobody where there is no row
  issued,   \* tokens in the hands of clients
  visit,    \* the requests
  edits,
  vouched   \* history: whose password was given when

authVars == <<minute, users, issued, visit, edits, vouched>>

\* held is history: the rows that there have been since the token was decoded.
Visit == [pc : {"out", "verified", "decoded", "acting"},
          user : Id \cup {Nobody},              \* user.id
          row : Account \cup {Nobody},
          token : Token \cup {Nobody},
          decoded : Nat,
          held : SUBSET (Id \X Account)]

AuthTypeOK ==
  /\ minute \in Nat
  /\ users \in [Id -> Account \cup {Nobody}]
  /\ issued \subseteq Token
  /\ visit \in [Visitor -> Visit]
  /\ edits \in Nat
  /\ vouched \subseteq Id \X Nat

Out == [pc |-> "out", user |-> Nobody, row |-> Nobody, token |-> Nobody,
        decoded |-> 0, held |-> {}]

AuthInit ==
  /\ minute = 0
  /\ users \in FirstUsers
  /\ issued = {}
  /\ visit = [v \in Visitor |-> Out]
  /\ edits = 0
  /\ vouched = {}

Become(v, r) == visit' = [visit EXCEPT ![v] = r]

\* The ids with the name; the column is unique.
Named(table, name) == {i \in Id : table[i] # Nobody /\ table[i].username = name}

-----------------------------------------------------------------------------
\* login, up to the row; whoever is refused is gone.
Verify(v, name, password) ==
  /\ visit[v].pc = "out"
  /\ \E i \in Named(users, name) :
       /\ users[i].password = password /\ users[i].is_active
       /\ Become(v, [Out EXCEPT !.pc = "verified", !.user = i, !.row = users[i]])
  /\ UNCHANGED <<minute, users, issued, edits, vouched>>

\* create_token.
TokenOf(v) ==
  [sub |-> visit[v].user, username |-> visit[v].row.username, exp |-> minute + Lifetime]

Issue(v) ==
  /\ visit[v].pc = "verified"
  /\ Cardinality(issued \cup {TokenOf(v)}) <= MaxLogins
  /\ issued' = issued \cup {TokenOf(v)}
  /\ vouched' = vouched \cup {<<visit[v].user, minute>>}
  /\ Become(v, Out)
  /\ UNCHANGED <<minute, users, edits>>

\* Mistake: the expiry is not looked at.
Expired_Ignored(token) == FALSE

Expired(token) == token.exp <= minute

Rows(table) == {r \in Id \X Account : table[r[1]] = r[2]}

\* decode_token.
Decode(v, token) ==
  /\ visit[v].pc = "out"
  /\ ~Expired(token)
  /\ Become(v, [Out EXCEPT !.pc = "decoded", !.token = token, !.decoded = minute,
                           !.held = Rows(users)])
  /\ UNCHANGED <<minute, users, issued, edits, vouched>>

\* Mistake: the user is looked up by the name in the token.
Subject_ByName(token) == Named(users, token.username)

Subject(token) == {i \in {token.sub} : users[i] # Nobody}

\* The rest of get_current_user: what the token says of the user is not used.
Resolve(v) ==
  /\ visit[v].pc = "decoded"
  /\ \E i \in Subject(visit[v].token) :
       /\ users[i].is_active
       /\ Become(v, [visit[v] EXCEPT !.pc = "acting", !.user = i, !.row = users[i]])
  /\ UNCHANGED <<minute, users, issued, edits, vouched>>

\* The response is complete, the user refused, or the database does not answer.
EndVisit(v) ==
  /\ visit[v].pc # "out"
  /\ Become(v, Out)
  /\ UNCHANGED <<minute, users, issued, edits, vouched>>

-----------------------------------------------------------------------------
\* The table changes under requests.
Replace(table) ==
  /\ edits < MaxEdits
  /\ edits' = edits + 1
  /\ users' = table
  /\ visit' = [v \in Visitor |->
                 IF visit[v].pc \in {"decoded", "acting"}
                 THEN [visit[v] EXCEPT !.held = @ \cup Rows(table)] ELSE visit[v]]
  /\ UNCHANGED <<minute, issued, vouched>>

SeedProfile(name) == [username |-> name, password |-> SeedPassword, is_active |-> TRUE]

\* seed_users: upserts by name, in one transaction.
Seed ==
  \E table \in [Id -> Account \cup {Nobody}] :
    /\ \A n \in SeedName : \E i \in Id : Named(table, n) = {i}
    /\ \A i \in Id :
         IF users[i] # Nobody /\ users[i].username \notin SeedName
         THEN table[i] = users[i]
         ELSE /\ users[i] # Nobody => table[i] = SeedProfile(users[i].username)
              /\ users[i] = Nobody => table[i] \in {Nobody} \cup {SeedProfile(n) : n \in SeedName}
    /\ Replace(table)

\* An administrator renames, deactivates, adds or deletes a user; also an id that
\* was deleted may come back, which is more than can happen.
Administer ==
  \E i \in Id, row \in Account \cup {Nobody} :
    /\ row # Nobody => Named(users, row.username) \subseteq {i}
    /\ Replace([users EXCEPT ![i] = row])

MinutePasses ==
  /\ minute < MaxTime
  /\ minute' = minute + 1
  /\ UNCHANGED <<users, issued, visit, edits, vouched>>

AuthNext ==
  \/ \E v \in Visitor :
       \/ \E name \in Username, password \in Password : Verify(v, name, password)
       \/ Issue(v)
       \/ \E token \in issued : Decode(v, token)
       \/ Resolve(v)
       \/ EndVisit(v)
  \/ Seed \/ Administer \/ MinutePasses

AuthSpec == AuthInit /\ [][AuthNext]_authVars
-----------------------------------------------------------------------------
(* A request acts as the user whose password was given at a login less     *)
(* than a token's lifetime before, whatever has become of names and rows   *)
(* in between, and with a row, active, that this user has had since the    *)
(* request came: deactivating or changing a user counts at once, although  *)
(* the token still says otherwise (get_current_user, create_token).        *)
AccessIsVouched ==
  \A v \in Visitor : visit[v].pc = "acting" =>
    /\ \E t \in 0..minute :
         <<visit[v].user, t>> \in vouched /\ visit[v].decoded < t + Lifetime
    /\ <<visit[v].user, visit[v].row>> \in visit[v].held
    /\ visit[v].row.is_active
=============================================================================
