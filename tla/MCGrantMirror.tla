--------------------------- MODULE MCGrantMirror ----------------------------
EXTENDS GoldenVectors
CONSTANTS own, i1, i2

\* Plain promises: to a granted and an ungranted receiver, several transfers in
\* one, none at all, a redirected refund, code.
Plain == {
  Promise(carol, NoAccount, <<Transfer(2)>>),
  Promise(carol, NoAccount, <<Transfer(3)>>),
  Promise(stranger, NoAccount, <<Transfer(2)>>),
  Promise(carol, NoAccount, <<Transfer(2), Transfer(1)>>),
  Promise(carol, NoAccount, <<>>),
  Promise(stranger, NoAccount, <<>>),
  Promise(carol, stranger, <<Transfer(1)>>),
  Promise(carol, NoAccount, <<StateInit(1)>>),
  Promise(stranger, NoAccount, <<StateInit(MaxU128 - 1), Transfer(MaxU128 - 1)>>) }

Ft(token, to, units) ==
  Promise(token, NoAccount, <<FunctionCall("ft_transfer", 1, Args(to, units, i1, "none", "memo"))>>)
Nft(collection, to, item) ==
  Promise(collection, NoAccount, <<FunctionCall("nft_transfer", 1, Args(to, 0, item, "none", "none"))>>)
Call(token, method, deposit, args) == Promise(token, NoAccount, <<FunctionCall(method, deposit, args)>>)

TokenCallsOfMC == {
  Ft(usdc, carol, 2), Ft(usdc, carol, 3), Ft(usdc, stranger, 3), Ft(usdt, carol, 1), Ft(own, carol, 1),
  Nft(art, carol, i1), Nft(art, carol, i2), Nft(usdc, stranger, i1), Nft(own, carol, i1),
  Call(usdc, "ft_transfer", 0, Args(carol, 1, i1, "none", "none")),
  Call(own, "ft_transfer", 2, Garbled),
  Call(usdc, "ft_transfer", 1, Garbled),
  Call(usdt, "ft_transfer", 1, Args(stranger, 1, i1, "none", "unknown field")),
  Call(art, "nft_transfer", 1, Args(stranger, 0, i2, "set", "none")),
  Call(usdc, "ft_transfer_call", 1, Args(carol, 1, i1, "none", "none")),
  Call(usdc, "storage_deposit", 1, Args(carol, 0, i1, "none", "none")),
  Call(usdc, "storage_deposit", 2, Garbled),
  Promise(own, NoAccount, <<FunctionCall("nft_transfer", 1, Args(carol, 0, i1, "none", "none")), Transfer(1)>>),
  Promise(usdc, carol, <<Transfer(9), FunctionCall("ft_transfer", 2, Args(carol, 1, i1, "none", "none"))>>) }

MCPromises == Plain \cup TokenCallsOfMC
MCRequests == {<<>>} \cup {<<p>> : p \in MCPromises} \cup (MCPromises \X MCPromises)

\* Requests of up to three promises that break few rules each: the meters.
FewRules == {Promise(carol, NoAccount, <<Transfer(2)>>), Promise(stranger, NoAccount, <<Transfer(2)>>),
             Ft(usdc, carol, 2), Ft(usdc, carol, 1), Nft(art, carol, i1),
             Promise(carol, stranger, <<Transfer(1)>>), Nft(own, carol, i1)}
MCLonger == FewRules \X FewRules \X FewRules

Grant(budget, spent, tokens, items, expires_at) ==
  [Default EXCEPT !.budget = budget, !.spent = spent, !.tokens = tokens, !.items = items, !.expires_at = expires_at]
MCGrants == {
  NoGrant,
  Grant(4, 0, usdc :> [budget |-> 4, spent |-> 1], art :> {i1}, 2),
  Grant(5, 1, usdc :> [budget |-> 6, spent |-> 1], art :> {i1} @@ own :> {i1}, 2),
  Grant(2, 2, usdc :> [budget |-> 3, spent |-> 3], art :> {i1}, 2),
  Grant(8, 0, usdc :> [budget |-> 4, spent |-> 0], art :> {i1}, 1) }
MCCases ==
  [request : MCRequests \cup MCLonger, grant : MCGrants, balance : {5, 10}, reserve : {1, 4}]
  \cup {v.case : v \in Vectors}
=============================================================================
