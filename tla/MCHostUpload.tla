---------------------------- MODULE MCHostUpload ----------------------------
(***************************************************************************)
(* Uploads for model checking HostUpload: up to MaxDevices devices of the  *)
(* forms below in every order.                                             *)
(***************************************************************************)
EXTENDS HostUpload

CONSTANT MaxDevices

Model(fault, points)  == [fault |-> fault, points |-> points]
Dev(fault, models)    == [fault |-> fault, models |-> models]

\* Accepted: without models, with one, with two of which one is empty.
\* Rejected: by the device element, by a second model after a good one, by a
\* point after good ones, at once.
Forms ==
    {Dev("", <<>>),
     Dev("", <<Model("", <<"", "">>), Model("", <<>>)>>),
     Dev("attribute", <<Model("", <<"">>)>>),
     Dev("timestamp", <<>>)}
    \union {Dev("", <<Model("", <<"">>), Model(f, <<"">>)>>) : f \in ModelFaults}
    \union {Dev("", <<Model("", <<"", f, "">>)>>) : f \in PointFaults}

MCUploads ==
    {[fault |-> f, devices |-> <<Dev("", <<>>)>>] : f \in RootFaults}
    \union {[fault |-> "", devices |-> ds] :
              ds \in UNION {[1 .. n -> Forms] : n \in 0 .. MaxDevices}}
=============================================================================
