-------------------------- MODULE PendingAdmission --------------------------
(***************************************************************************)
(* Which unknown endpoints may open a session: the sliding window of       *)
(* attempts the registry of the Windows host keeps for every IP address    *)
(* (backend.rs).  What the session does afterwards is HostSessions, where  *)
(* any packet of an unknown endpoint may be turned away.                   *)
(***************************************************************************)
EXTENDS Integers, Sequences, FiniteSets

CONSTANTS
  Addresses,
  MaxAttempts,  \* MAX_PENDING_ATTEMPTS_PER_IP
  AttemptSpan,  \* PENDING_ATTEMPT_WINDOW
  LastInstant, MaxTries  \* bounds: the clock, the attempts of an address

ASSUME AdmissionAssumption == {MaxAttempts, AttemptSpan, LastInstant, MaxTries} \subseteq Nat

VARIABLES
  now,
  attempts,     \* pending_attempts_by_ip: instants, oldest first
  log           \* history: every attempt of an address, with its answer

admission == <<now, attempts, log>>

\* Mutant: an attempt exactly as old as the window is forgotten.
ExpiredAtEdge(instant) == now - instant >= AttemptSpan
Expired(instant) == now - instant > AttemptSpan

\* Expired attempts are dropped from the front, as far as they go.
Recent(ip) ==
  LET old == {i \in DOMAIN attempts[ip] : \A j \in 1..i : Expired(attempts[ip][j])}
  IN SubSeq(attempts[ip], Cardinality(old) + 1, Len(attempts[ip]))

\* allow_new_pending_peer, for a packet of an endpoint without a session.
Attempt(ip) ==
  LET recent  == Recent(ip)
      allowed == Len(recent) < MaxAttempts
  IN /\ Len(log[ip]) < MaxTries
     /\ attempts' = [attempts EXCEPT ![ip] =
                       IF allowed THEN Append(recent, now) ELSE recent]
     /\ log' = [log EXCEPT ![ip] = Append(@, [at |-> now, allowed |-> allowed])]
     /\ UNCHANGED now

InstantPasses ==
  /\ now < LastInstant
  /\ now' = now + 1
  /\ UNCHANGED <<attempts, log>>

AdmissionInit ==
  /\ now = 0
  /\ attempts = [ip \in Addresses |-> <<>>]
  /\ log = [ip \in Addresses |-> <<>>]

AdmissionNext == InstantPasses \/ \E ip \in Addresses : Attempt(ip)
AdmissionSpec == AdmissionInit /\ [][AdmissionNext]_admission

-----------------------------------------------------------------------------
(* Properties *)

\* However an address spreads its attempts, one is admitted exactly when fewer
\* than twelve were in the ten seconds before it, both ends included: refused
\* ones do not count, nor do those of another address.
AdmissionIsExact ==
  \A ip \in Addresses : \A i \in DOMAIN log[ip] :
    LET inSpan == {j \in 1..(i - 1) : /\ log[ip][j].allowed
                                      /\ log[ip][i].at - log[ip][j].at <= AttemptSpan}
    IN log[ip][i].allowed <=> Cardinality(inSpan) < MaxAttempts
=============================================================================
