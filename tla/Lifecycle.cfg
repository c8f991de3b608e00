CONSTANT Programs <- AllPrograms
SPECIFICATION Spec
INVARIANTS LinksAsNamed RequiresHold EnsuresHold UnitsAgree
