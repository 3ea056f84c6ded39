\* Up to four rows of two columns, a cap of two.
CONSTANTS
  sales = sales  name = name
  Column = {sales, name}
  Additive = {sales}
  SQLRowCap = 2
  DefaultRowCap = 2
  MaxSize = 4
  NoLimit = NoLimit  OtherLimit = OtherLimit  NoRows = NoRows
SPECIFICATION TotalsSpec
INVARIANT TotalsAreDeterministic
