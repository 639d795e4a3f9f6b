------------------------------- MODULE ZudtCC -------------------------------
(***************************************************************************)
(* ZUDTCC (cc.cpp), the congestion control of a sending socket: when the   *)
(* time between two packets is raised after reports of loss, and how far,  *)
(* and how max_speed keeps it from falling too low.  CUDT's receiving      *)
(* thread calls onACK and onLoss, the sending thread tells the last number *)
(* it has used, and setBW is called from the thread of the command line,   *)
(* without a lock.                                                         *)
(*                                                                         *)
(* The period is counted in parts of a microsecond, Unit to one.  By how   *)
(* much an ACK lowers it, which depends on measured rates, and the random  *)
(* threshold are left open, as is the congestion window.  init leaves slow *)
(* start off, so that its branches and onTimeout do nothing; the ACKs of   *)
(* one interval after the first do nothing, either.                        *)
(***************************************************************************)
EXTENDS SeqNo

CONSTANTS
  Unit,       \* parts of a microsecond
  Window,     \* how far behind the last packet a report may begin
  Limits,     \* the periods that speeds stand for; 0: no limit
  MaxRandom,  \* bound on m_iDecRandom
  MaxPeriod,  \* bound on a limit; no report is read while the period is longer
  None

ZudtCCConstants ==
  /\ Unit \in Nat \ {0}
  /\ Window \in Nat /\ Window < SeqNoTH
  /\ MaxPeriod \in Nat /\ Limits \subseteq 0 .. MaxPeriod
  /\ MaxRandom \in Nat \ {0}
  /\ None \notin Nat

VARIABLES
  sndCurrSeqNo,  \* m_iSndCurrSeqNo
  lastDecSeq,    \* m_iLastDecSeq
  period,        \* m_dPktSndPeriod
  bLoss,         \* m_bLoss
  nakCount,      \* m_iNAKCount
  decRandom,     \* m_iDecRandom
  decCount,      \* m_iDecCount; 5 stands for 5 and more
  limit,         \* what m_pcParam points to
  param,         \* m_pcParam: "none", "set", or "invalid" inside setUserParam
  asked,         \* the argument of a setBW that is not done, or None
  outstanding,   \* packets that a report may begin with
  sinceCut,      \* history: packets sent since the last cut; SeqNoTH: or more
  epochPeriod,   \* history: the period before the first cut of the epoch, or
                 \* the one that the limit has asked for since
  applied        \* history: the limit was applied since it was set

seqVars == <<sndCurrSeqNo, outstanding>>
cutVars == <<lastDecSeq, nakCount, decRandom, decCount, sinceCut>>
limitVars == <<limit, param, asked, applied>>
vars == <<seqVars, cutVars, period, bLoss, epochPeriod, limitVars>>

\* init, where the first number is sndCurrSeqNo + 1.
Init ==
  /\ sndCurrSeqNo \in SeqNos
  /\ lastDecSeq = decseq(sndCurrSeqNo)
  /\ period = Unit
  /\ bLoss = FALSE
  /\ nakCount = 0 /\ decRandom = 1 /\ decCount = 0
  /\ limit = 0 /\ param = "none" /\ asked = None /\ applied = FALSE
  /\ outstanding = 0
  /\ sinceCut = 1
  /\ epochPeriod = Unit

\* setSndCurrSeqNo, from CUDT::packData
Send ==
  /\ sndCurrSeqNo' = incseq(sndCurrSeqNo)
  /\ outstanding' = IF outstanding < Window THEN outstanding + 1 ELSE Window
  /\ sinceCut' = IF sinceCut < SeqNoTH THEN sinceCut + 1 ELSE SeqNoTH
  /\ UNCHANGED <<lastDecSeq, nakCount, decRandom, decCount, period, bLoss,
                 epochPeriod, limitVars>>

-----------------------------------------------------------------------------
(* onACK, at most once in an interval. *)

\* The first ACK after a loss changes nothing.
OnACKAfterLoss ==
  /\ bLoss
  /\ bLoss' = FALSE
  /\ UNCHANGED <<seqVars, cutVars, period, epochPeriod, limitVars>>

\* What is read of m_pcParam; inside setUserParam the memory is freed, or new
\* and not yet written, and may hold anything.
Readable ==
  IF param = "none" THEN {0}
  ELSE IF param = "set" THEN {limit}
  ELSE 0 .. MaxPeriod

AtLeast(p, l) == IF p < l THEN l ELSE p

\* A slip: the limit is applied before the period is lowered.
OnACKLimitFirst ==
  /\ ~bLoss
  /\ \E l \in Readable : \E p \in 1 .. AtLeast(period, l) :
       /\ period' = p
       /\ epochPeriod' = AtLeast(epochPeriod, l)
  /\ applied' = (param = "set")
  /\ UNCHANGED <<seqVars, cutVars, bLoss, limit, param, asked>>

\* The period is lowered, but not below the limit.
OnACK ==
  /\ ~bLoss
  /\ \E p \in 1 .. period, l \in Readable :
       /\ period' = AtLeast(p, l)
       /\ epochPeriod' = IF p < l THEN AtLeast(epochPeriod, l) ELSE epochPeriod
  /\ applied' = (param = "set")
  /\ UNCHANGED <<seqVars, cutVars, bLoss, limit, param, asked>>

-----------------------------------------------------------------------------
(* onLoss: a report, perhaps an old one, whose first number is n behind    *)
(* the last one that was sent.                                             *)

\* ceil(period * 1.125)
Longer(p) == Unit * ((9 * p + 8 * Unit - 1) \div (8 * Unit))

IsFresh(n) == seqcmp(Shift(sndCurrSeqNo, -n), lastDecSeq) > 0

Report(n) ==
  /\ n < outstanding
  /\ period =< MaxPeriod
  /\ bLoss' = TRUE

Cut ==
  /\ period' = Longer(period)
  /\ lastDecSeq' = sndCurrSeqNo
  /\ sinceCut' = 0

Counted == decCount' = IF decCount < 5 THEN decCount + 1 ELSE 5

\* The loss of a packet that was sent after the last cut begins an epoch.
BeginEpoch(n) ==
  /\ Report(n)
  /\ IsFresh(n)
  /\ Cut
  /\ epochPeriod' = period
  /\ nakCount' = 1 /\ decCount' = 1
  /\ decRandom' \in 1 .. MaxRandom
  /\ UNCHANGED <<seqVars, limitVars>>

\* A slip: only the first cut of an epoch is remembered.
CutAgainInEpoch(n) ==
  /\ Report(n)
  /\ ~IsFresh(n)
  /\ decCount < 5 /\ (nakCount + 1) % decRandom = 0
  /\ period' = Longer(period)
  /\ sinceCut' = 0
  /\ Counted /\ nakCount' = nakCount + 1
  /\ UNCHANGED <<seqVars, lastDecSeq, decRandom, epochPeriod, limitVars>>

\* A slip: reports are counted, but there is no end to the cuts.
CutAgainAndAgain(n) ==
  /\ Report(n)
  /\ ~IsFresh(n)
  /\ (nakCount + 1) % decRandom = 0
  /\ Cut
  /\ Counted /\ nakCount' = nakCount + 1
  /\ UNCHANGED <<seqVars, decRandom, epochPeriod, limitVars>>

\* Every decRandom-th of the next reports cuts again.
CutAgain(n) ==
  /\ Report(n)
  /\ ~IsFresh(n)
  /\ decCount < 5 /\ (nakCount + 1) % decRandom = 0
  /\ Cut
  /\ Counted /\ nakCount' = nakCount + 1
  /\ UNCHANGED <<seqVars, decRandom, epochPeriod, limitVars>>

\* The others only count, after the fifth not even that.
CountReport(n) ==
  /\ Report(n)
  /\ ~IsFresh(n)
  /\ decCount < 5 => (nakCount + 1) % decRandom # 0
  /\ Counted
  /\ nakCount' = IF decCount < 5 THEN nakCount + 1 ELSE nakCount
  /\ UNCHANGED <<seqVars, lastDecSeq, decRandom, sinceCut, period, epochPeriod,
                 limitVars>>

-----------------------------------------------------------------------------
(* setBW: setUserParam frees the old value, allocates and copies.  The     *)
(* first time m_iPSize keeps it from being read before.                    *)

BeginSetBW(l) ==
  /\ asked = None
  /\ asked' = l
  /\ param' = IF param = "none" THEN "none" ELSE "invalid"
  /\ applied' = FALSE
  /\ UNCHANGED <<seqVars, cutVars, period, bLoss, epochPeriod, limit>>

EndSetBW ==
  /\ asked # None
  /\ limit' = asked
  /\ param' = "set"
  /\ asked' = None
  /\ UNCHANGED <<seqVars, cutVars, period, bLoss, epochPeriod, applied>>

Next ==
  \/ Send
  \/ OnACKAfterLoss \/ OnACK
  \/ \E n \in 0 .. Window - 1 : BeginEpoch(n) \/ CutAgain(n) \/ CountReport(n)
  \/ \E l \in Limits \cup {0} : BeginSetBW(l)
  \/ EndSetBW

Spec == Init /\ [][Next]_vars

-----------------------------------------------------------------------------

(***************************************************************************)
(* Old, repeated and overtaken reports are told from new ones through      *)
(* every wrap of the numbers: a report begins an epoch just if its first   *)
(* packet was sent after the last cut, be it one that began an epoch or    *)
(* not, as long as less than half the circle was sent since that cut       *)
(* (onLoss and m_iLastDecSeq).                                             *)
(***************************************************************************)
EpochsAreFresh ==
  sinceCut < SeqNoTH =>
    \A n \in 0 .. Window - 1 : n < outstanding => (IsFresh(n) <=> n < sinceCut)

(***************************************************************************)
(* In an epoch, whatever number of reports comes, the rate is not          *)
(* decreased by more than half, except for the rounding up of the period,  *)
(* which takes up to 7 microseconds in the five cuts (onLoss and its       *)
(* comment).                                                               *)
(***************************************************************************)
RateHalvedAtMost == period =< 2 * epochPeriod + 7 * Unit

(***************************************************************************)
(* Once an ACK has applied a limit, no ACK and no report of loss takes the *)
(* socket above it until setBW is called again (onACK and setBW).          *)
(***************************************************************************)
RateLimited == applied /\ param = "set" => period >= limit

-----------------------------------------------------------------------------
(* The inductive invariant: the last cut is sinceCut packets back, each    *)
(* cut of an epoch is an eighth and a rounding, and no limit counts as     *)
(* applied while setBW is under way.                                       *)

TypeOK ==
  /\ sndCurrSeqNo \in SeqNos /\ lastDecSeq \in SeqNos
  /\ outstanding \in 0 .. Window
  /\ sinceCut \in 0 .. SeqNoTH
  /\ period \in Nat /\ epochPeriod \in Nat
  /\ bLoss \in BOOLEAN
  /\ nakCount \in Nat /\ decRandom \in Nat \ {0} /\ decCount \in 0 .. 5
  /\ limit \in Nat /\ asked \in Nat \cup {None}
  /\ param \in {"none", "set", "invalid"}
  /\ applied \in BOOLEAN

CutIsBehind ==
  sinceCut < SeqNoTH => lastDecSeq = Shift(sndCurrSeqNo, -sinceCut)

CutsAddUp ==
  /\ decCount = 0 => period =< epochPeriod
  /\ decCount = 1 => 8 * period =< 9 * epochPeriod + 8 * Unit
  /\ decCount = 2 => 64 * period =< 81 * epochPeriod + 136 * Unit
  /\ decCount = 3 => 512 * period =< 729 * epochPeriod + 1736 * Unit
  /\ decCount = 4 => 4096 * period =< 6561 * epochPeriod + 19720 * Unit
  /\ decCount = 5 => 32768 * period =< 59049 * epochPeriod + 210248 * Unit

NotWhileAsked == asked # None => param # "set" /\ ~applied

IInv == TypeOK /\ CutIsBehind /\ CutsAddUp /\ NotWhileAsked /\ RateLimited

=============================================================================
