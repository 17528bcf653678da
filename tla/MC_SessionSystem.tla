-------------------------- MODULE MC_SessionSystem --------------------------
(***************************************************************************)
(* Instances of SessionSystem for TLC: the client's connections 1, 2, ...  *)
(* are the endpoints of the host.                                          *)
(***************************************************************************)
EXTENDS SessionSystem, TLC

\* The output ports are written by every step and read by none but their own.
WithoutPorts == <<host, sessions, code, store, issued, now, queue, dialogs, prompted, accepted,
                  conn, open, codec, seq, drawn, pinned, shown, refused, ui, tasks, busy, hand,
                  taps, uplink, downlink, copies>>
=============================================================================
