----------------------------- MODULE MCStartup -----------------------------
(***************************************************************************)
(* Startup with a handful of configurations: accepted ones that start,     *)
(* accepted ones that cannot, and refused ones.                            *)
(***************************************************************************)
EXTENDS Startup

Any(port) == [host |-> "any", port |-> port]
Local(port) == [host |-> "local", port |-> port]

Plain ==
    [bats |-> <<[pcs |-> 1, bms |-> 2, clusters |-> 1],
                [pcs |-> 3, bms |-> 4, clusters |-> 2]>>,
     others |-> <<5>>, metered |-> {1}, modbus |-> Any(502),
     rtu |-> NoAddress, port |-> NoAddress, xn |-> <<>>,
     mms |-> FALSE, mmsAt |-> Any(102), iec |-> <<>>, can |-> <<>>]

\* Both batteries on XN3477 endpoints.
XnAt(a, b) == <<[bms |-> 2, at |-> a, slaves |-> <<1, 2>>],
                [bms |-> 4, at |-> b, slaves |-> <<1, 2, 3>>]>>
Bms(a, b) == [Plain EXCEPT !.xn = XnAt(a, b)]

\* Two interfaces, of which the second may not open, and an IEC 61850 server.
Full2 ==
    [Plain EXCEPT !.mms = TRUE,
                  !.can = <<[at |-> "can0", bms |-> 2], [at |-> "can1", bms |-> 4]>>]

MCConfigs ==
    {Bms(Any(503), Any(504)), Full2,
     \* refused: one address twice, an endpoint for an unknown battery
     Bms(Any(503), Any(503)),
     [Plain EXCEPT !.xn = <<[bms |-> 9, at |-> Any(503), slaves |-> <<1, 2>>]>>],
     \* accepted, and bound to fail
     [Bms(Any(503), Any(504)) EXCEPT !.port = Any(504)],
     Bms(Local(502), Any(504)),
     [Plain EXCEPT !.rtu = Any(502)]}
=============================================================================
