-------------------------- MODULE MC_HostSessions --------------------------
(***************************************************************************)
(* Instances of HostSessions for TLC.  Endpoints and devices are model     *)
(* values and interchangeable, so permuting either is a symmetry of the    *)
(* specification and of every property checked with it.                    *)
(***************************************************************************)
EXTENDS HostSessions, TLC

PeerSymmetry == Permutations(Peers)
\* The output ports wire and injected are written by every step and read by
\* none, so states that differ only there have the same behaviours; the
\* properties over the ports are action properties, checked on every step.
WithoutPorts == <<host, sessions, code, store, issued, now, queue, dialogs,
                  prompted, accepted>>
ClientSymmetry == Permutations(Peers) \cup Permutations(Devices)
=============================================================================
