-------------------------------- MODULE MCServer --------------------------------
(* A small instance of Server: three requests, two campaigns, two users, and   *)
(* the scenarios, each aimed at what its requests can do to one another.       *)
EXTENDS Server

CONSTANTS r1, r2, r3, c1, c2, u1, u2

MCRequests == {r1, r2, r3}
MCCampaigns == {c1, c2}
MCUsers == {u1, u2}

Op(kind, u, id) == [kind |-> kind, campaign |-> id, user |-> u, order |-> <<>>,
                    valid |-> TRUE, merchant |-> FALSE]
ByMerchant(op) == [op EXCEPT !.merchant = TRUE]
Invalid(op) == [op EXCEPT !.valid = FALSE]
Reorder(order) == [Op("reorder", u1, c1) EXCEPT !.order = order]

Sends(a, b, c) ==
    [ops |-> [r \in MCRequests |-> CASE r = r1 -> a [] r = r2 -> b [] r = r3 -> c],
     hang |-> {}, variables |-> "environment", rows |-> MCCampaigns,
     indexer |-> FALSE, upserts |-> {}, claims |-> {}]

Reordering ==
    [Sends(Reorder(<<c1, c2>>), Reorder(<<c2, c1>>), Op("delete", u1, c1))
        EXCEPT !.indexer = TRUE, !.upserts = {<<c1, FALSE>>}]
\* c2 has no row until the indexer inserts it, before, between or after the UPDATEs
Inserting ==
    [Sends(Reorder(<<c2, c1>>), Reorder(<<c2, c1, c2>>), Op("delete", u1, c2))
        EXCEPT !.rows = {c1}, !.indexer = TRUE, !.upserts = {<<c2, TRUE>>}]
ReorderingThrice ==
    Sends(Reorder(<<c1, c2>>), Reorder(<<c2, c1>>), Reorder(<<c2, c1>>))
Claiming ==
    [Sends(Op("claim", u1, c1), Op("claim", u1, c1), Op("claim", u1, c2))
        EXCEPT !.rows = {c1}, !.indexer = TRUE, !.claims = {<<u1, c1>>}]
Deleting ==
    [Sends(Op("delete", u1, c1), Op("restore", u1, c1), Op("delete", u1, c1))
        EXCEPT !.indexer = TRUE, !.upserts = {<<c1, FALSE>>}]
Reading == Sends(Op("list", u1, c1), Op("analytics", u1, c1), Op("rewards", u1, c1))
LoggingIn ==
    Sends(Op("challenge", u1, c1), Op("verify", u1, c1), ByMerchant(Op("delete", u1, c1)))
VerifyingTwice ==
    Sends(Op("challenge", u1, c1), Op("verify", u1, c1), Op("verify", u1, c1))
TwoKeys ==
    Sends(Op("challenge", u1, c1), Op("challenge", u2, c1), Op("verify", u2, c1))
Refusing ==
    Sends(Invalid(Reorder(<<>>)), Invalid(Op("challenge", u1, c1)), Invalid(Op("verify", u1, c1)))
Looking ==
    [Sends(Op("get", u1, c1), Op("get", u1, c2), Invalid(Op("get", u1, c1)))
        EXCEPT !.rows = {c1}]
Hanging(c) ==
    [Sends(Op("health", u1, c1), Op("health", u1, c1), Op("get", u1, c1))
        EXCEPT !.hang = {c}, !.indexer = TRUE]

MCScenarios ==
    {Reordering, Inserting, ReorderingThrice, Claiming, Deleting, Reading, Looking,
     LoggingIn, VerifyingTwice, TwoKeys, Refusing, [Refusing EXCEPT !.variables = "secret"], Hanging("stellar"), Hanging("database")}

\* For the run that shows a shutdown without an end
MCHealthOnly ==
    {[Sends(Op("health", u1, c1), Op("health", u1, c1), Op("health", u1, c1))
        EXCEPT !.hang = {"database"}]}
=============================================================================
