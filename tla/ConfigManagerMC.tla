---------------------------- MODULE ConfigManagerMC ----------------------------
\* A small instance of ConfigManager: a tree of two levels, as that of the
\* unit test, one of a single level, and one with a key that is no text.
EXTENDS ConfigManager, TLC

Text == Scalar({"string"})
Number == Scalar({"string", "int", "double"})
Flag == Scalar({"string", "bool"})

MCTrees ==
    { Null,
      Entries("exchange" :> Entries("api_key" :> Text @@ "testnet" :> Flag
                                    @@ "max_orders" :> Number)
              @@ "symbols" :> Items(<<Text, Text>>)),
      Entries("enabled" :> Flag),
      Entries(NotText :> Text) }
=============================================================================
