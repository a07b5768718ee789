----------------------------- MODULE Admission -----------------------------
(***************************************************************************)
(* Who gets a connection: accept of the DERP server asks verifyClient once *)
(* (internal/derpserver/derpserver.go), which asks the verifier of the ops *)
(* API (VerifyClientFunc, internal/ops/runtime.go; verify,                 *)
(* internal/ops/devices.go), which asks the device store of this process,  *)
(* while that is being refreshed and changed.                              *)
(*                                                                         *)
(* The store is asked last and registerClient follows at once, so one step *)
(* stands for the whole handshake; what URLs and tailscaled answer, and    *)
(* whether they answer in time, is up to the environment.                  *)
(***************************************************************************)
EXTENDS DeviceStore

CONSTANTS VerifyConfig,  \* the checks of the verifier that are enabled
          ServerChecks   \* the checks built into the DERP server that are set

ASSUME AdmissionAssumption ==
  /\ VerifyConfig \subseteq {"enabled", "urls", "tailscaled", "api"}
  /\ ServerChecks \subseteq {"tailscaled", "url", "failOpen"}

VARIABLE linked   \* keys with a connection that the store admitted

admissionVars == <<vars, linked>>

If(enabled, answers) == IF enabled THEN answers ELSE {"unasked"}

\* What the environment answers during a handshake: whether the client shows
\* the mesh key; the server's own tailscaled and URL; the verifier's URLs
\* (whether one accepts, and whether they took the callback's five seconds) and
\* its tailscaled.
Handshake ==
  [mesh : BOOLEAN,
   whois : If("tailscaled" \in ServerChecks, {"yes", "no"}),
   url : If("url" \in ServerChecks, {"yes", "no", "unreachable"}),
   urls : If("urls" \in VerifyConfig, {"yes", "no", "late"}),
   known : If("tailscaled" \in VerifyConfig, {"yes", "no"})]

\* The built-in checks: all that are set have to pass.  An unreachable URL that
\* may fail open ends verifyClient with success, the callback unasked.
FailsOpen(h) == h.url = "unreachable" /\ "failOpen" \in ServerChecks
BuiltIn(h) == h.whois # "no" /\ h.url \in {"yes", "unasked"}

\* verify: any of the enabled sources will do.  Each URL has a timeout of its
\* own; tailscaled is asked within what they leave of the five seconds; the
\* store does not look at the clock of the callback.
ByOthers(h) == h.urls = "yes" \/ (h.known = "yes" /\ h.urls # "late")
ByStore(d) == "api" \in VerifyConfig /\ allowed(d)

verify(d, h) == "enabled" \in VerifyConfig => ByOthers(h) \/ ByStore(d)

\* Mesh peers bypass all checks.
verifyClient(d, h) ==
  \/ h.mesh
  \/ h.whois # "no" /\ FailsOpen(h)
  \/ BuiltIn(h) /\ verify(d, h)

\* What the store decided: without it, the client would have been refused.
NeedsStore(h) ==
  "enabled" \in VerifyConfig /\ ~h.mesh /\ ~FailsOpen(h) /\ ~ByOthers(h)

\* accept: a client that is admitted is registered, and never asked again.
\* Connections that the store had no part in are not followed further.
accept(d, h) ==
  /\ verifyClient(d, h)
  /\ linked' = IF NeedsStore(h) THEN linked \cup {d} ELSE linked
  /\ UNCHANGED vars

\* The last of these connections ends.
Disconnect(d) ==
  /\ d \in linked
  /\ linked' = linked \ {d}
  /\ UNCHANGED vars

AdmissionInit == Init /\ linked = {}

AdmissionNext ==
  \/ Next /\ UNCHANGED linked
  \/ \E d \in Devices : Disconnect(d) \/ \E h \in Handshake : accept(d, h)

AdmissionSpec == AdmissionInit /\ [][AdmissionNext]_admissionVars /\ Fair
-----------------------------------------------------------------------------
(* Properties. *)

\* A device that every tailnet has withdrawn for good is in the end refused for
\* good, even if no API ever answers again.  The connection it may still have
\* stays until it ends (nobody asks again), and is then not replaced.
RevocationLands ==
  \A d \in Devices :
    <>[]Revoked(d) => /\ <>[]~allowed(d)
                      /\ <>[](d \in linked) \/ <>[](d \notin linked)
=============================================================================
