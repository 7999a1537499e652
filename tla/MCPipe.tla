------------------------------- MODULE MCPipe -------------------------------
(* Instances of Pipe for TLC. *)
EXTENDS Pipe, TLC

(* Flow control one way: five messages over a high-water mark of three. *)
Flow == [hwm |-> 0 :> 3 @@ 1 :> 0, msgs |-> 0 :> 5 @@ 1 :> 0,
         multipart |-> {}, delays |-> {TRUE}, reader |-> End,
         hiccuper |-> {}]

(* Messages of one and of two parts. *)
Parts == [Flow EXCEPT !.hwm = 0 :> 2 @@ 1 :> 0, !.msgs = 0 :> 2 @@ 1 :> 0,
                      !.multipart = {0}]

(* Messages both ways and every choice of delay. *)
Term == [Flow EXCEPT !.hwm = 0 :> 2 @@ 1 :> 1, !.msgs = 0 :> 1 @@ 1 :> 1,
                     !.delays = BOOLEAN]

(* A session that hiccups while the socket writes. *)
Reconnect == [Flow EXCEPT !.hwm = 0 :> 1 @@ 1 :> 0,
                          !.msgs = 0 :> 1 @@ 1 :> 0,
                          !.multipart = {0}, !.delays = BOOLEAN,
                          !.hiccuper = {1}]

(* The same with ends that wait for what is left in the pipe. *)
Lingering == [Reconnect EXCEPT !.msgs = 0 :> 2 @@ 1 :> 0, !.multipart = {},
                               !.delays = {TRUE}]

(* A socket that never reads, as PUSH. *)
Push == [Lingering EXCEPT !.reader = {1}, !.hiccuper = {}]

AllSettings == {Flow, Parts, Term, Reconnect}
LingeringOnly == {Lingering}
PushOnly == {Push}
=============================================================================
