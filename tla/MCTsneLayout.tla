---------------------------- MODULE MCTsneLayout ----------------------------
(* Layouts of three to five points in the plane, where the grid has four   *)
(* cells a side, and of three points in space, where it has eight.  Five   *)
(* points do not divide evenly among two or three owners; a call takes one *)
(* to nine iterations, in two phases as a rule.                            *)
EXTENDS TsneLayout

Graph5 == [near |-> <<<<1, 2, 3>>, <<1, 3, 4>>, <<4, 2, 1>>, <<3, 4, 5>>, <<1, 4, 5>>>>,
           share |-> <<<<7, 5, 3>>, <<6, 2, 9>>, <<1, 4, 8>>, <<2, 7, 5>>, <<3, 6, 2>>>>]
Graph4 == [near |-> <<<<1, 2, 3>>, <<1, 3, 4>>, <<4, 2, 1>>, <<3, 4, 4>>>>,
           share |-> <<<<7, 5, 3>>, <<6, 2, 9>>, <<1, 4, 8>>, <<2, 7, 5>>>>]
Graph3 == [near |-> <<<<2, 3>>, <<3, 1>>, <<2, 3>>>>, share |-> <<<<7, 3>>, <<2, 9>>, <<1, 4>>>>]
Plane5 == <<<<0, 0>>, <<1, 1>>, <<-2, 4>>, <<5, -2>>, <<2, 3>>>>
Plane4 == <<<<0, 0>>, <<1, 1>>, <<-2, 4>>, <<5, -2>>>>
Plane3 == <<<<0, 0>>, <<3, 1>>, <<-2, 4>>>>
Space3 == <<<<0, 0, 1>>, <<3, 1, 1>>, <<-2, 4, 3>>>>

Call(route, init, graph) ==
    [route |-> route, init |-> init, graph |-> graph, early |-> 2, normal |-> 3,
     exaggeration |-> [early |-> 3, normal |-> 1], momentum |-> [early |-> 1, normal |-> 2],
     rate |-> 0, least |-> 1, longest |-> 3, threads |-> 2, auto |-> FALSE, end |-> 5,
     record |-> TRUE, every |-> 0, devices |-> 1, capacity |-> 4, capture |-> FALSE, faulty |-> FALSE]

MCTsneCalls ==
    {Call("memory", Plane4, Graph4),
     [Call("memory", Plane3, Graph3) EXCEPT !.early = 0, !.rate = 4, !.auto = TRUE],
     [Call("memory", Plane4, Graph4) EXCEPT !.early = 5, !.normal = 4, !.auto = TRUE, !.end = 1],
     [Call("memory", Plane5, Graph5) EXCEPT !.auto = TRUE, !.record = FALSE],
     [Call("files", Plane4, Graph4) EXCEPT !.every = 2],
     [Call("owners", Plane5, Graph5) EXCEPT !.every = 2, !.devices = 2, !.faulty = TRUE],
     [Call("owners", Plane4, Graph4) EXCEPT !.every = 2],
     [Call("owners", Space3, Graph3) EXCEPT !.early = 0, !.normal = 1, !.devices = 2],
     [Call("resident", Plane5, Graph5) EXCEPT !.devices = 3, !.capacity = 3],
     [Call("launches", Plane4, Graph4) EXCEPT !.capture = TRUE, !.faulty = TRUE],
     [Call("launches", Space3, Graph3) EXCEPT !.early = 1, !.normal = 0],
     Call("diagnose", Plane4, Graph4),
     Call("diagnose", Space3, Graph3)}

TsneSpec == TsneInit /\ [][TsneNext]_tsneVars
=============================================================================
