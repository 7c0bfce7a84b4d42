------------------------------ MODULE MCEntryGate ------------------------------
(***************************************************************************)
(* Values for EntryGate: a coin at 0.01 USD in halves of 1e-6, shares in   *)
(* 1e-6, the defaults of config.py, and two accounts that narrow one limit *)
(* each.  The distances are 1 % (capped by the notional) and 3.005 % (by   *)
(* the risk, and not a multiple of the rounding step).                     *)
(***************************************************************************)
EXTENDS EntryGate

MCPlatform == [risk |-> 5000, position |-> 200000, total |-> 600000]

MCAccountLimits ==
    {MCPlatform, [MCPlatform EXCEPT !.risk = 4000], [MCPlatform EXCEPT !.total = 300000]}

MCDists == {200, 601}

\* One contract with a price step of 1e-5, a quantity step worth 0.1 USD and a
\* minimum above what a small account asks for; one that changes no order.
MCContract ==
    [s \in Symbols |-> IF s = CHOOSE t \in Symbols : TRUE
                       THEN [tick |-> 20, step |-> 100000, least |-> 1900000]
                       ELSE [tick |-> 2, step |-> 1, least |-> 0]]

\* Bounds: a small account, and orders of the user near its total limit.
MCBalances == {0, 10, 20}
MCUserNotionals == {4500000}

=============================================================================
