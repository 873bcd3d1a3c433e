------------------------------ MODULE MCOutput ------------------------------
\* Two motors; orders for runs with and without a limit, in synchronisation and with a turn.
EXTENDS Output

Order(speed, state, regulated, reg, turn, limit, options) ==
    [on |-> TRUE, brake |-> TRUE, regulated |-> regulated, reg |-> reg, speed |-> speed,
     turn |-> turn, state |-> state, limit |-> limit, options |-> options]

MCPowers == {1}
MCPorts == {{0, 1}, {1}}
MCOrders ==
    {Order(2, "running", FALSE, {}, 0, 0, {}),
     Order(-1, "running", TRUE, {"regulated"}, 0, 1, {"hold"}),
     Order(1, "running", TRUE, {"synchrone"}, 0, 1, {"hold"}),
     Order(2, "running", TRUE, {"synchrone"}, 1, 2, {"rampdown"}),
     Order(2, "rampup", FALSE, {}, 0, 2, {})}
MCWrites ==
    {[flags |-> {"speed"}, speed |-> 0, state |-> "rampdown"],
     [flags |-> {"speed", "mode", "limit"}, reg |-> {"position"}, on |-> TRUE, regulated |-> TRUE,
      limit |-> 1, speed |-> 1, state |-> "running"]}
=============================================================================
