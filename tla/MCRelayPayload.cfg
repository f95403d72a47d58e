CONSTANTS
  Configured <- AllRelays
  Messages <- FewFields
  BotValue = BotValue
  ConfigValue = ConfigValue
  Zero = Zero
  Unset = Unset
SPECIFICATION Spec
INVARIANTS
  TypeOK
  BotTermsPrevail
  DefaultsFillGaps
  RefundsOnlyWhereSupported
