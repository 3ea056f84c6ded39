\* One SELECT over one or two of three tables, or over a derived table and a table.
CONSTANTS
  invoices = invoices  orders = orders  purchases = purchases
  measure = measure  product = product  mrp = mrp
  inv = inv  ord = ord  pur = pur  derived = derived
  BaseTable = {invoices, orders, purchases}
  Name = {measure, product, mrp}
  Has <- ColumnsOf
  OwnerOf <- OwnersOf
  Ambiguous = {product}
  UsualAlias <- UsualAliases
  Drafts <- AnyDrafts
  NoRepair = NoRepair
SPECIFICATION FixerSpec
INVARIANT SharedColumnsStay
