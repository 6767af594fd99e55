---------------------------- MODULE DexLoginProofs ----------------------------
(***************************************************************************)
(* Proofs about DexLogin, for any set of callbacks of any kinds.           *)
(***************************************************************************)
EXTENDS DexLogin, SequenceTheorems, TLAPS

\* An error in the channel, or on its way there, is one of the listener or of a
\* callback that was not good.
ErrorsAreReal ==
  /\ \A c \in Callbacks : handler[c] = "error" => KindOf[c] # "good"
  /\ \A n \in 1..Len(errCh) :
       \/ errCh[n] = "listener" /\ listener = "reported"
       \/ errCh[n] \in Callbacks /\ KindOf[errCh[n]] # "good" /\ handler[errCh[n]] = "answered"

\* A code in a handler, in the channel or in main came with a good callback.
CodesAreOurs ==
  /\ \A c \in Callbacks : handler[c] = "code" => KindOf[c] = "good"
  /\ \A n \in 1..Len(codeCh) : KindOf[codeCh[n]] = "good"
  /\ code # NoCallback => KindOf[code] = "good"

\* What main has when.
MainSays ==
  /\ main \in {"waiting", "exchanging"} => exit = "none" /\ stdout = NoCallback
  /\ main = "exchanging" => code # NoCallback

LoginInv ==
  LoginTypeOK /\ ErrorsAreReal /\ CodesAreOurs /\ MainSays /\ TokenIsOurs /\ FailureHasReason

-----------------------------------------------------------------------------

\* Channels as sequences: what a send and a receive do.
LEMMA SendOne ==
  ASSUME NEW S, NEW ch \in Seq(S), NEW x \in S, Len(ch) < Capacity
  PROVE  /\ Append(ch, x) \in Seq(S)
         /\ Len(Append(ch, x)) = 1
         /\ \A n \in 1..Len(Append(ch, x)) : Append(ch, x)[n] = x
BY DEF Capacity

LEMMA ReceiveOne ==
  ASSUME NEW S, NEW ch \in Seq(S), ch # <<>>, Len(ch) <= Capacity
  PROVE  /\ 1 \in 1..Len(ch)
         /\ Head(ch) = ch[1] /\ Head(ch) \in S
         /\ Tail(ch) \in Seq(S) /\ Len(Tail(ch)) = 0
<1>1. Len(ch) \in Nat \ {0}
  BY EmptySeq
<1>2. Len(ch) = 1
  BY <1>1 DEF Capacity
<1> QED BY <1>2

LEMMA LoginStarts == LoginInit => LoginInv
<1> SUFFICES ASSUME LoginInit PROVE LoginInv
  OBVIOUS
<1>1. /\ codeCh \in Seq(Callbacks) /\ Len(codeCh) = 0
      /\ errCh \in Seq(Origins) /\ Len(errCh) = 0
  BY DEF LoginInit
<1>2. refused \in BOOLEAN
  BY DEF LoginInit
<1> QED
  BY <1>1, <1>2, CallbackAssumption
  DEF LoginInit, LoginInv, LoginTypeOK, ErrorsAreReal, CodesAreOurs, MainSays,
      TokenIsOurs, FailureHasReason, Capacity

LEMMA LoginSteps == LoginInv /\ [LoginNext]_loginVars => LoginInv'
<1> SUFFICES ASSUME LoginInv, [LoginNext]_loginVars PROVE LoginInv'
  OBVIOUS
<1> USE CallbackAssumption
        DEF LoginInv, LoginTypeOK, ErrorsAreReal, CodesAreOurs, MainSays,
            TokenIsOurs, FailureHasReason, Origins, MainFrame, ServerFrame
<1>1. CASE Listen
  BY <1>1 DEF Listen
<1>2. CASE ListenFails
  BY <1>2 DEF ListenFails
<1>3. CASE SendListenError
  <2>1. /\ errCh' \in Seq(Origins) /\ Len(errCh') = 1
        /\ \A n \in 1..Len(errCh') : errCh'[n] = "listener"
    BY <1>3, SendOne DEF SendListenError
  <2>2. Len(errCh') <= Capacity
    BY <2>1 DEF Capacity
  <2> QED BY <1>3, <2>1, <2>2 DEF SendListenError
<1>4. CASE TimerFires
  BY <1>4 DEF TimerFires
<1>5. ASSUME NEW c \in Callbacks, Callback(c) PROVE LoginInv'
  BY <1>5 DEF Callback, Sends
<1>6. ASSUME NEW c \in Callbacks, SendError(c) PROVE LoginInv'
  <2>1. /\ errCh' \in Seq(Origins) /\ Len(errCh') = 1
        /\ \A n \in 1..Len(errCh') : errCh'[n] = c
    BY <1>6, SendOne DEF SendError
  <2>2. Len(errCh') <= Capacity
    BY <2>1 DEF Capacity
  <2> QED BY <1>6, <2>1, <2>2 DEF SendError
<1>7. ASSUME NEW c \in Callbacks, SendCode(c) PROVE LoginInv'
  <2>1. /\ codeCh' \in Seq(Callbacks) /\ Len(codeCh') = 1
        /\ \A n \in 1..Len(codeCh') : codeCh'[n] = c
    BY <1>7, SendOne DEF SendCode
  <2>2. Len(codeCh') <= Capacity
    BY <2>1 DEF Capacity
  <2> QED BY <1>7, <2>1, <2>2 DEF SendCode
<1>8. ASSUME NEW c \in Callbacks, Shutdown(c) PROVE LoginInv'
  BY <1>8 DEF Shutdown
<1>9. CASE TakeCode
  <2>1. /\ code' \in Callbacks /\ KindOf[code'] = "good"
        /\ codeCh' \in Seq(Callbacks) /\ Len(codeCh') = 0
    BY <1>9, ReceiveOne DEF TakeCode
  <2>2. Len(codeCh') <= Capacity
    BY <2>1 DEF Capacity
  <2> QED BY <1>9, <2>1, <2>2 DEF TakeCode
<1>10. CASE TakeError
  <2>1. 1 \in 1..Len(errCh) /\ errCh' \in Seq(Origins) /\ Len(errCh') = 0
    BY <1>10, ReceiveOne DEF TakeError
  <2>2. Len(errCh') <= Capacity
    BY <2>1 DEF Capacity
  <2>3. FailureHasReason'
    BY <1>10, <2>1 DEF TakeError, Exit
  <2> QED BY <1>10, <2>1, <2>2, <2>3 DEF TakeError, Exit
<1>11. CASE TimeOut
  BY <1>11 DEF TimeOut, Exit
<1>12. CASE Exchange
  BY <1>12 DEF Exchange, Exit
<1>13. CASE ExchangeFails
  BY <1>13 DEF ExchangeFails, Exit
<1>14. CASE UNCHANGED loginVars
  BY <1>14 DEF loginVars
<1> QED
  BY <1>1, <1>2, <1>3, <1>4, <1>5, <1>6, <1>7, <1>8, <1>9, <1>10, <1>11, <1>12, <1>13, <1>14
  DEF LoginNext, Answer

LEMMA LoginInvariant == LoginSpec => []LoginInv
  BY LoginStarts, LoginSteps, PTL DEF LoginSpec

-----------------------------------------------------------------------------

\* Type correctness of the login: in particular neither channel ever holds more
\* than its capacity (scripts/dex-login.go, the two channels of main).
THEOREM LoginTypeCorrect == LoginSpec => []LoginTypeOK
<1>1. LoginInv => LoginTypeOK
  BY DEF LoginInv
<1> QED BY <1>1, LoginInvariant, PTL

\* However many callbacks of whichever kinds arrive, the only token printed is
\* that of this login's code, and then the exit status is zero
\* (scripts/dex-login.go, callback handler, select and exchange).
THEOREM PrintsOurToken == LoginSpec => []TokenIsOurs
<1>1. LoginInv => TokenIsOurs
  BY DEF LoginInv
<1> QED BY <1>1, LoginInvariant, PTL

\* However many callbacks arrive, the program fails only for a reason: shutting
\* the server down after a good one is none (scripts/dex-login.go, fatalf).
THEOREM FailsForAReason == LoginSpec => []FailureHasReason
<1>1. LoginInv => FailureHasReason
  BY DEF LoginInv
<1> QED BY <1>1, LoginInvariant, PTL
=============================================================================
