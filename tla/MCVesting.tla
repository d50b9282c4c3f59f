----------------------------- MODULE MCVesting ------------------------------
EXTENDS Vesting

(* Account 0 is the null account, 3 the witness. *)
Each(a, b, c, d) == [x \in Account |-> CASE x = 1 -> a [] x = 2 -> b [] x = 3 -> c
                                         [] x = 4 -> d [] OTHER -> 0]

MCVotes ==
  [services |-> {"votes", "decline"}, signers |-> {1, 2, 3}, amounts |-> {}, rewards |-> {<<0, 0>>},
   stake |-> Each(1, 2, 4, 1), balance |-> Each(0, 0, 0, 0)]
MCProxies ==
  [services |-> {"votes", "vest"}, signers |-> {1, 2, 3, 4}, amounts |-> {1}, rewards |-> {<<1, 1>>},
   stake |-> Each(1, 1, 1, 1), balance |-> Each(1, 0, 0, 0)]
MCRoutes ==
  [services |-> {"withdraw", "routes"}, signers |-> {1}, amounts |-> {5}, rewards |-> {<<1, 1>>},
   stake |-> Each(5, 1, 0, 4), balance |-> Each(0, 0, 0, 0)]
MCDelegations ==
  [services |-> {"withdraw", "delegate"}, signers |-> {1, 2}, amounts |-> {1, 3}, rewards |-> {<<0, 0>>},
   stake |-> Each(3, 2, 0, 2), balance |-> Each(0, 0, 0, 0)]
MCRoutedVotes ==
  [services |-> {"votes", "withdraw", "routes"}, signers |-> {1}, amounts |-> {2}, rewards |-> {<<0, 0>>},
   stake |-> Each(2, 1, 0, 4), balance |-> Each(0, 0, 0, 0)]
MCUses == {MCVotes, MCProxies, MCRoutes, MCRoutedVotes, MCDelegations}
=============================================================================
