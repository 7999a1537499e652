------------------------------ MODULE Endpoint ------------------------------
(***************************************************************************)
(* A connecter (src/tcp_connecter.cpp, ipc_connecter.cpp) and the          *)
(* listeners (src/tcp_listener.cpp, ipc_listener.cpp) with their file      *)
(* descriptors, timers and, for the ipc transport, the file of the bound   *)
(* path.  A connecter's life starts at its plug command and ends at any    *)
(* time with its term command.                                             *)
(***************************************************************************)
EXTENDS Integers, FiniteSets, SequencesExt

CONSTANTS
  Setting,     \* records: transport ("tcp" or "ipc"), paths (listener ->
               \* path), ivl and ivl_max (options), crash (BOOLEAN)
  Listener,
  Width,       \* bits of an int
  MaxFd        \* bound: descriptors opened

VARIABLES
  setting,
  s, handle, wait, reconnect_timer, ivl,  \* the connecter's attributes
  life,        \* "new", "plugged", "ending" (terminate called), "gone"
  waited,      \* the interval of the timer that was started last
  fds,         \* open fd -> who closes it: "connecter", "engine", a listener
  made,        \* descriptors opened so far
  ls,          \* listener -> [s, has_file, plugged]
  file,        \* path -> the listener whose socket is bound to it, "none", or
               \* "left": the file of a program that has ended
  failed       \* the assertion that failed; "bind": a file that was left
               \* behind made bind () fail

cvars == <<s, handle, wait, reconnect_timer, ivl, life, waited>>
vars == <<setting, cvars, fds, made, ls, file, failed>>

retired_fd == 0
NoListener == [s |-> retired_fd, has_file |-> FALSE, plugged |-> FALSE]
Paths == {setting.paths[l] : l \in Listener}

(* The constructors; a connecter that waits was made by a session that has *)
(* lost its connection. *)
Init ==
  /\ setting \in Setting
  /\ s = retired_fd /\ handle = FALSE /\ wait \in BOOLEAN
  /\ reconnect_timer = FALSE /\ ivl = setting.ivl
  /\ life = "new" /\ waited = 0 /\ fds = << >> /\ made = 0
  /\ ls = [l \in Listener |-> NoListener]
  /\ file = [p \in Paths |-> "none"] /\ failed = ""

Opened == made + 1
-----------------------------------------------------------------------------
(* Reconnection intervals *)

(* A sum or product of int: two's complement. *)
ToInt(n) == LET m == 2 ^ Width IN ((n + m \div 2) % m) - m \div 2

(* Mutant: the doubled interval is not cut. *)
next_ivl_Open == IF setting.ivl_max > setting.ivl THEN ToInt(ivl * 2) ELSE ivl

(* get_new_reconnect_ivl: the next value of current_reconnect_ivl. *)
next_ivl ==
  IF setting.ivl_max > 0 /\ setting.ivl_max > setting.ivl
  THEN IF ToInt(ivl * 2) >= setting.ivl_max THEN setting.ivl_max ELSE ToInt(ivl * 2)
  ELSE ivl

(* add_reconnect_timer, with a random part of the interval; pending: a     *)
(* timer is already there.                                                 *)
add_reconnect_timer(pending) ==
  /\ failed' = IF pending THEN "reconnect_timer" ELSE failed
  /\ wait' = TRUE /\ reconnect_timer' = TRUE /\ life' = "plugged"
  /\ \E r \in 0 .. setting.ivl - 1 : waited' = ToInt(ivl + r)
  /\ ivl' = next_ivl
-----------------------------------------------------------------------------
(* The connecter *)

(* open: the outcomes of socket (), bind () to a source address (tcp only) *)
(* and connect ().                                                         *)
tcp_open == {"nosocket", "nobind", "refused", "inprogress", "done"}
ipc_open == {"nosocket", "refused", "inprogress", "done"}
open == IF setting.transport = "tcp" THEN tcp_open ELSE ipc_open

(* connect and out_event without an error: the engine takes the descriptor *)
(* and the connecter ends.                                                 *)
Connected(fd) ==
  /\ fds' = (fd :> "engine") @@ fds
  /\ s' = retired_fd /\ handle' = FALSE /\ life' = "ending"
  /\ wait' = FALSE /\ reconnect_timer' = FALSE
  /\ UNCHANGED <<ivl, waited, failed>>

(* Mutant: the failed socket stays open. *)
Refused_Leak(fd, pending) ==
  /\ fds' = IF fd = retired_fd THEN fds ELSE (fd :> "connecter") @@ fds
  /\ s' = retired_fd /\ handle' = FALSE
  /\ add_reconnect_timer(pending)

(* close, and wait. *)
Refused(fd, pending) ==
  /\ fds' = RestrictDomain(fds, LAMBDA f : f # fd)
  /\ s' = retired_fd /\ handle' = FALSE
  /\ add_reconnect_timer(pending)

(* start_connecting; pending: a timer is still there. *)
start_connecting(pending) ==
  /\ failed = "" /\ s = retired_fd
  /\ \E o \in open :
       \/ o = "nosocket" /\ Refused(retired_fd, pending) /\ UNCHANGED made
       \/ /\ o # "nosocket" /\ made < MaxFd /\ made' = Opened
          /\ \/ o = "done" /\ Connected(Opened)
             \/ o \in {"nobind", "refused"} /\ Refused(Opened, pending)
             \/ /\ o = "inprogress"
                /\ fds' = (Opened :> "connecter") @@ fds
                /\ s' = Opened /\ handle' = TRUE /\ life' = "plugged"
                /\ wait' = FALSE /\ reconnect_timer' = pending
                /\ UNCHANGED <<ivl, waited, failed>>

process_plug ==
  /\ life = "new" /\ failed = ""
  /\ IF wait THEN add_reconnect_timer(FALSE)
                  /\ UNCHANGED <<s, handle, fds, made>>
     ELSE start_connecting(FALSE)
  /\ UNCHANGED <<setting, ls, file>>

(* timer_event: the timer is forgotten, and connecting starts. *)
timer_event ==
  /\ life = "plugged" /\ reconnect_timer /\ failed = ""
  /\ start_connecting(FALSE)
  /\ UNCHANGED <<setting, ls, file>>

(* connect: an error of the socket that is not a "networking problem". *)
Unexpected ==
  /\ failed' = "SO_ERROR"
  /\ UNCHANGED <<cvars, fds>>

(* in_event and out_event: the connection is made, or has failed. *)
out_event ==
  /\ life = "plugged" /\ handle /\ failed = ""
  /\ Connected(s) \/ Refused(s, reconnect_timer) \/ Unexpected
  /\ UNCHANGED <<setting, made, ls, file>>

(* The term command and the destructor, at any time after the plug. *)
destroy ==
  /\ life \in {"plugged", "ending"} /\ failed = ""
  /\ failed' = IF wait /\ ~reconnect_timer THEN "wait" ELSE failed
  /\ fds' = RestrictDomain(fds, LAMBDA f : f # s)
  /\ s' = retired_fd /\ handle' = FALSE /\ reconnect_timer' = FALSE
  /\ wait' = FALSE /\ life' = "gone"
  /\ UNCHANGED <<setting, ivl, waited, made, ls, file>>
-----------------------------------------------------------------------------
(* Listeners *)

(* The system's files: unlink (), and bind () to a path, which fails when  *)
(* there is a file.                                                        *)
unlink(f, l) == [f EXCEPT ![setting.paths[l]] = "none"]
bind(f, l) == IF f[setting.paths[l]] = "none"
              THEN [f EXCEPT ![setting.paths[l]] = l] ELSE f

(* tcp_listener_t::set_address, when socket (), bind () and listen ()      *)
(* succeed.  The system refuses an address that is in use.                 *)
tcp_set_address(l, fd) ==
  /\ \A k \in Listener : ls[k].s = retired_fd
                          \/ setting.paths[k] # setting.paths[l]
  /\ ls' = [ls EXCEPT ![l].s = fd]
  /\ UNCHANGED <<file, failed>>

(* Mutant: the file of an earlier run is not removed. *)
ipc_set_address_Keep(l, fd) ==
  /\ file' = bind(file, l)
  /\ ls' = [ls EXCEPT ![l] = [@ EXCEPT !.s = fd, !.has_file = TRUE]]
  /\ failed' = IF file'[setting.paths[l]] = l THEN failed ELSE "bind"

(* ipc_listener_t::set_address: the file of the path is removed first, and *)
(* made again by bind ().                                                  *)
ipc_set_address(l, fd) ==
  /\ file' = bind(unlink(file, l), l)
  /\ ls' = [ls EXCEPT ![l] = [@ EXCEPT !.s = fd, !.has_file = TRUE]]
  /\ failed' = IF file'[setting.paths[l]] = l THEN failed ELSE "bind"

(* xs_bind: a listener whose address cannot be set is deleted again. *)
Bind(l) ==
  /\ ls[l] = NoListener /\ made < MaxFd /\ failed = ""
  /\ made' = Opened /\ fds' = (Opened :> l) @@ fds
  /\ IF setting.transport = "tcp" THEN tcp_set_address(l, Opened)
     ELSE ipc_set_address(l, Opened)
  /\ UNCHANGED <<setting, cvars>>

(* Any other system call of set_address fails. *)
BindFails(l) ==
  /\ ls[l] = NoListener /\ failed = ""
  /\ IF setting.transport = "tcp" THEN UNCHANGED file
     ELSE file' = unlink(file, l)
  /\ UNCHANGED <<setting, cvars, fds, made, ls, failed>>

(* process_plug *)
PlugListener(l) ==
  /\ ls[l].s # retired_fd /\ ~ls[l].plugged /\ failed = ""
  /\ ls' = [ls EXCEPT ![l].plugged = TRUE]
  /\ UNCHANGED <<setting, cvars, fds, made, file, failed>>

(* in_event: accept () may fail; otherwise the engine takes the new socket *)
(* to its session.                                                         *)
Accept(l) ==
  /\ ls[l].plugged /\ made < MaxFd /\ failed = ""
  /\ made' = Opened /\ fds' = (Opened :> "engine") @@ fds
  /\ UNCHANGED <<setting, cvars, ls, file, failed>>

(* tcp_listener_t::close and ipc_listener_t::close, which removes the file *)
(* of the path.                                                            *)
tcp_close(l) == UNCHANGED file
ipc_close(l) == file' = IF ls[l].has_file THEN unlink(file, l) ELSE file

(* process_term and the destructor. *)
CloseListener(l) ==
  /\ ls[l].plugged /\ failed = ""
  /\ fds' = RestrictDomain(fds, LAMBDA f : f # ls[l].s)
  /\ ls' = [ls EXCEPT ![l] = NoListener]
  /\ IF setting.transport = "tcp" THEN tcp_close(l) ELSE ipc_close(l)
  /\ UNCHANGED <<setting, cvars, made, failed>>

(* The program of the listener ends without closing it: the system closes  *)
(* the socket, and the file stays.                                         *)
Crash(l) ==
  /\ setting.crash /\ ls[l].s # retired_fd /\ failed = ""
  /\ fds' = RestrictDomain(fds, LAMBDA f : f # ls[l].s)
  /\ ls' = [ls EXCEPT ![l] = NoListener]
  /\ file' = [p \in Paths |-> IF file[p] = l THEN "left" ELSE file[p]]
  /\ UNCHANGED <<setting, cvars, made, failed>>

Next ==
  \/ process_plug \/ timer_event \/ out_event \/ destroy
  \/ \E l \in Listener :
       \/ Bind(l) \/ BindFails(l) \/ PlugListener(l) \/ Accept(l)
       \/ CloseListener(l) \/ Crash(l)

Spec == Init /\ [][Next]_vars
-----------------------------------------------------------------------------
(* Properties *)

(* Every open descriptor has one owner that will close it, on every path   *)
(* through a failed, refused or ended connection attempt; the destructor's *)
(* and the timer's assertions hold ("xs_assert (reconnect_timer)").  The   *)
(* program aborts on purpose on an error that connect does not expect.     *)
NoDescriptorLost ==
  /\ failed \notin {"wait", "reconnect_timer"}
  /\ {f \in DOMAIN fds : fds[f] = "connecter"} =
       {s} \ {retired_fd}
  /\ \A l \in Listener : {f \in DOMAIN fds : fds[f] = l} =
       {ls[l].s} \ {retired_fd}
  /\ handle => s # retired_fd
  /\ life = "plugged" => handle # reconnect_timer

(* However many attempts have failed, a connecter waits at least for the   *)
(* interval that was asked for, and less than that interval longer than    *)
(* the larger of the two options.                                          *)
Longest == IF setting.ivl_max > setting.ivl THEN setting.ivl_max ELSE setting.ivl
IntervalBounded == waited # 0 =>
  waited >= setting.ivl /\ waited < Longest + setting.ivl

(* XS_RECONNECT_IVL_MAX "is the maximum period the library shall wait      *)
(* between attempts to reconnect".  Not so: the random part is added to it *)
(* (get_new_reconnect_ivl).                                                *)
WithinMaximum == setting.ivl_max > setting.ivl => waited <= setting.ivl_max

(* A bound and listening ipc socket can be reached through its path, and a *)
(* path can be bound to again although a program that has crashed has left *)
(* its file there.                                                         *)
BoundReachable == setting.transport = "ipc" =>
  /\ failed # "bind"
  /\ \A l \in Listener : ls[l].s # retired_fd => file[setting.paths[l]] = l
=============================================================================
