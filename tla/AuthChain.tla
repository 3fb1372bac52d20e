----------------------------- MODULE AuthChain -----------------------------
(***************************************************************************)
(* How a request or a push session is let in: the chains of authenticators *)
(* and authorizers of processor_helpers.go and websocket_server.go, and    *)
(* the verifiers the repository ships (authorizer/mtls, authorizer/simple).*)
(* A verifier's answer is a verdict: AuthActionOK, AuthActionKO,           *)
(* AuthActionContinue, or "error" when it returns one.                     *)
(* Certificates are abstracted to what the verifiers tell apart: a list is *)
(* "verified" when one of its members passes cert.Verify and the verifier  *)
(* function, "unverified" otherwise; a tls state may be nil or hold no     *)
(* certificate, a header may be absent ("none") or not decode ("garbled"). *)
(***************************************************************************)
EXTENDS Naturals, Sequences, FiniteSetsExt

CONSTANTS CertificateCheckMode, \* where the mtls verifier looks for certificates
          DeciderFunc           \* the function given to the mtls verifier

Verdict == {"ok", "ko", "continue", "error"}
TLSState == {"nil", "empty", "verified", "unverified"}
Header == {"none", "garbled", "verified", "unverified"}

ASSUME AuthAssumption ==
    /\ CertificateCheckMode \in
         {"TLSStateOnly", "TLSStateThenHeader", "HeaderThenTLSState", "HeaderOnly"}
    /\ DeciderFunc \in [{"ok", "ko", "continue"} -> {"ok", "ko", "continue"}]
-----------------------------------------------------------------------------
HasPeer(state) == state \in {"verified", "unverified"}

decodeCertHeader(header) == IF header = "garbled" THEN "missing" ELSE header

CertificatesFromTLSState(state) == IF HasPeer(state) THEN state ELSE "missing"

CertificatesFromHeader(header) ==
    IF header = "none" THEN "missing" ELSE decodeCertHeader(header)

CertificatesFromHeaderThenTLSState(state, header) ==
    IF header # "none" THEN decodeCertHeader(header) ELSE CertificatesFromTLSState(state)

CertificatesFromTLSStateThenHeader(state, header) ==
    IF HasPeer(state) THEN state ELSE CertificatesFromHeader(header)

checkAction(state, header) ==
    LET certs ==
          CASE CertificateCheckMode = "TLSStateOnly" -> CertificatesFromTLSState(state)
            [] CertificateCheckMode = "TLSStateThenHeader" ->
                 CertificatesFromTLSStateThenHeader(state, header)
            [] CertificateCheckMode = "HeaderThenTLSState" ->
                 CertificatesFromHeaderThenTLSState(state, header)
            [] CertificateCheckMode = "HeaderOnly" -> CertificatesFromHeader(header)
    IN  CASE state = "nil" /\ header = "none" -> "continue"
          [] certs = "verified" -> "ok"
          [] OTHER -> "ko"

mtlsAuthenticateRequest(state, header) == DeciderFunc[checkAction(state, header)]

\* A session brings no header.
mtlsAuthenticateSession(state) == DeciderFunc[checkAction(state, "none")]

\* The authorizer asks its decider only when it looked at certificates.
mtlsIsAuthorized(ignored, state, header) ==
    IF ignored \/ (state = "nil" /\ header = "none")
    THEN "continue"
    ELSE DeciderFunc[checkAction(state, header)]

\* The simple verifiers call the function they were given, if any.
simpleAuthenticateRequest(func) == IF func = "nil" THEN "continue" ELSE func
simpleAuthenticateSession(func) == IF func = "nil" THEN "continue" ELSE func
simpleIsAuthorized(func) == IF func = "nil" THEN "continue" ELSE func
-----------------------------------------------------------------------------
\* The loop of the three chains: it returns at the first verdict that is not
\* "continue", and lets the request in when there is none.
Walk(chain) ==
    LET deciding == {i \in 1..Len(chain) : chain[i] # "continue"}
    IN  deciding # {} => chain[Min(deciding)] = "ok"

CheckAuthentication(chain) == Walk(chain)

CheckAuthorization(chain) == Walk(chain)

authSession(chain) == Walk(chain)

\* What the chain promises: every refusal is preceded by a grant.
Grants(chain) ==
    \A i \in 1..Len(chain) :
        chain[i] \in {"ko", "error"} => \E j \in 1..(i - 1) : chain[j] = "ok"
=============================================================================
