------------------------------- MODULE MCJobs -------------------------------
(* The job of a socket connection (net-connections.c:1172): JS_RUN and       *)
(* JS_FINISH belong to the I/O thread, JS_ABORT to the main thread, and the  *)
(* CPU thread only sends.  It is created with two references, that of the    *)
(* event table and that of the connection (net-connections.c:1173-1206).     *)
EXTENDS JobSignals

MCThread == {"main", "cpu", "io"}
MCClassOf == [t \in MCThread |-> CASE t = "main" -> 3 [] t = "cpu" -> 4 [] t = "io" -> 5]
MCSig == {0, 5}
MCSigClass == [s \in MCSig \union {7} |-> IF s = 5 THEN 3 ELSE 5]
=============================================================================
