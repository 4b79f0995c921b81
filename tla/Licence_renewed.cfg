SPECIFICATION Spec
CONSTANTS
  MaxDay = 1
  Grace = 0
  HasNacl = TRUE
  MaxTroubles = 1
  MaxSales = 3
PROPERTY RenewedIsKept
