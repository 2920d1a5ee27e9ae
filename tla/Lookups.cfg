SPECIFICATION Spec
CONSTANTS
  Inventories <- AllInventories
  Wanted <- AllWanted
INVARIANT FindsWhatIsThere
