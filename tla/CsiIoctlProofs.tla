--------------------------- MODULE CsiIoctlProofs ---------------------------
(***************************************************************************)
(* Proofs about the ioctl handler of CsiIoctl, for every set of requests   *)
(* and channels and every number of ioctls.                                *)
(*                                                                         *)
(* AcknowledgedIsInstalled is not inductive: while ioctl 500 is under way  *)
(* it says nothing.  What it needs is that the words before the next one   *)
(* to be written already have their new values (WrittenSoFar).             *)
(***************************************************************************)
EXTENDS CsiIoctl, TLAPS

\* An ioctl 500 under way, with the number of the word to be written next.
Started(r, n) == [params |-> r.params, next |-> n]

\* The words already written have the values of the ioctl under way.
WrittenSoFar ==
    ioctl # Null =>
        \E r \in Request, n \in 1..Len(Words) + 1 :
            /\ r.cmd = 500
            /\ ioctl = Started(r, n)
            /\ \A i \in 1..n - 1 : shm[Words[i]] = r.params[Words[i]]

IoIInv ==
    /\ DOMAIN shm = DOMAIN ShmReset
    /\ WrittenSoFar
    /\ AcknowledgedIsInstalled

-----------------------------------------------------------------------------
\* Every word of the list is a word of the shared memory.
LEMMA WordFacts ==
    /\ Len(Words) \in Nat
    /\ \A i \in 1..Len(Words) : Words[i] \in DOMAIN ShmReset
BY DEF Words, ShmReset

\* What changes none of the variables of the invariant, or only starts an
\* ioctl, keeps it.
LEMMA QuietKeeps ==
    ASSUME IoIInv, UNCHANGED <<shm, ioctl, installed>>
    PROVE  IoIInv'
BY DEF IoIInv, WrittenSoFar, AcknowledgedIsInstalled

LEMMA SetCsiKeeps ==
    ASSUME IoIInv, NEW r \in Request, SetCsi(r)
    PROVE  IoIInv'
<1>1. ioctl = Null /\ UNCHANGED <<shm, installed>>
  BY DEF SetCsi, Accept
<1>2. CASE ioctl' = Null
  BY <1>1, <1>2, QuietKeeps
<1>3. CASE ioctl' # Null
  <2>1. r.cmd = 500 /\ ioctl' = Started(r, 1)
    BY <1>3 DEF SetCsi, Started
  <2>2. 1 \in 1..Len(Words) + 1 /\ 1..1 - 1 = {}
    BY WordFacts
  <2>3. WrittenSoFar'
    BY <2>1, <2>2 DEF WrittenSoFar
  <2>4. QED
    BY <1>1, <1>3, <2>3 DEF IoIInv, AcknowledgedIsInstalled
<1>4. QED
  BY <1>2, <1>3

\* One more word is written: it gets its new value, and a word written
\* before either keeps its value or is written again with the same one.
LEMMA WriteShmKeeps ==
    ASSUME IoIInv, WriteShm
    PROVE  IoIInv'
<1>1. PICK r \in Request, n \in 1..Len(Words) + 1 :
         /\ r.cmd = 500
         /\ ioctl = Started(r, n)
         /\ \A i \in 1..n - 1 : shm[Words[i]] = r.params[Words[i]]
  BY DEF WriteShm, IoIInv, WrittenSoFar
<1>2. /\ ioctl.next = n /\ ioctl.params = r.params
      /\ n \in 1..Len(Words)
      /\ DOMAIN shm = DOMAIN ShmReset
  BY <1>1, WordFacts DEF WriteShm, IoIInv, Started
<1>3. /\ shm' = [shm EXCEPT ![Words[n]] = r.params[Words[n]]]
      /\ ioctl' = Started(r, n + 1)
      /\ installed' = installed
  BY <1>1, <1>2 DEF WriteShm, Started
<1>4. DOMAIN shm' = DOMAIN ShmReset
  BY <1>2, <1>3
<1>5. ASSUME NEW i \in 1..n
      PROVE  shm'[Words[i]] = r.params[Words[i]]
  <2>1. Words[i] \in DOMAIN shm
    BY <1>2, WordFacts
  <2>2. CASE i = n
    BY <1>3, <2>1, <2>2
  <2>3. CASE i # n
    <3>1. shm[Words[i]] = r.params[Words[i]]
      BY <1>1, <1>2, <2>3, WordFacts
    <3>2. QED
      BY <1>3, <2>1, <3>1
  <2>4. QED
    BY <2>2, <2>3
<1>6. n + 1 \in 1..Len(Words) + 1 /\ 1..(n + 1) - 1 = 1..n
  BY <1>2, WordFacts
<1>7. ioctl' # Null
  BY <1>1, <1>3, <1>6, IoNullAssumption DEF Started
<1>8. WrittenSoFar'
  BY <1>1, <1>3, <1>5, <1>6 DEF WrittenSoFar
<1>9. QED
  BY <1>4, <1>7, <1>8 DEF IoIInv, AcknowledgedIsInstalled

\* The last word has been written, so all of them have their new values.
LEMMA SetCsiDoneKeeps ==
    ASSUME IoIInv, SetCsiDone
    PROVE  IoIInv'
<1>1. PICK r \in Request, n \in 1..Len(Words) + 1 :
         /\ ioctl = Started(r, n)
         /\ \A i \in 1..n - 1 : shm[Words[i]] = r.params[Words[i]]
  BY DEF SetCsiDone, IoIInv, WrittenSoFar
<1>2. n > Len(Words) /\ installed' = r.params /\ shm' = shm /\ ioctl' = Null
  BY <1>1 DEF SetCsiDone, Started
<1>3. n - 1 = Len(Words)
  BY <1>2, WordFacts
<1>4. AcknowledgedIsInstalled'
  BY <1>1, <1>2, <1>3 DEF AcknowledgedIsInstalled
<1>5. QED
  BY <1>2, <1>4 DEF IoIInv, WrittenSoFar

\* Loading the microcode anew resets the words and what was acknowledged.
LEMMA UpKeeps ==
    ASSUME IoIInv, wlc_up
    PROVE  IoIInv'
BY DEF wlc_up, IoIInv, WrittenSoFar, AcknowledgedIsInstalled

\* One step per action of the handler.
LEMMA IoNextKeeps == IoIInv /\ [IoNext]_ioVars => IoIInv'
<1> SUFFICES ASSUME IoIInv, [IoNext]_ioVars PROVE IoIInv'
  OBVIOUS
<1>1. ASSUME NEW r \in Request, Handle(r) PROVE IoIInv'
  <2>1. CASE SetCsi(r)
    BY <2>1, SetCsiKeeps
  <2>2. CASE GetCollect(r)
    BY <2>2, QuietKeeps DEF GetCollect
  <2>3. CASE ForceDeaf(r)
    BY <2>3, QuietKeeps DEF ForceDeaf
  <2>4. CASE CleanDeaf(r)
    BY <2>4, QuietKeeps DEF CleanDeaf
  <2>5. CASE SetPhaseJumps(r)
    BY <2>5, QuietKeeps DEF SetPhaseJumps
  <2>6. CASE ReadObjmem(r)
    BY <2>6, QuietKeeps DEF ReadObjmem
  <2>7. QED
    BY <1>1, <2>1, <2>2, <2>3, <2>4, <2>5, <2>6 DEF Handle
<1>2. CASE wlc_down
  BY <1>2, QuietKeeps DEF wlc_down
<1>3. CASE UNCHANGED ioVars
  BY <1>3, QuietKeeps DEF ioVars
<1>4. QED
  BY <1>1, <1>2, <1>3, WriteShmKeeps, SetCsiDoneKeeps, UpKeeps
     DEF IoNext, wlc_ioctl_hook

(***************************************************************************)
(* Whatever the requests, and however often the interface goes down and    *)
(* up, a configuration that was acknowledged is installed, word for word.  *)
(***************************************************************************)
THEOREM Acknowledged == IoSpec => []AcknowledgedIsInstalled
<1>1. IoAlone => IoIInv
  BY DEF IoAlone, IoInit, IoIInv, WrittenSoFar, AcknowledgedIsInstalled
<1>2. IoIInv /\ [IoNext]_ioVars => IoIInv'
  BY IoNextKeeps
<1>3. IoIInv => AcknowledgedIsInstalled
  BY DEF IoIInv
<1>4. QED
  BY <1>1, <1>2, <1>3, PTL DEF IoSpec

(***************************************************************************)
(* An ioctl that is answered with an error leaves every word the microcode *)
(* reads as it was; the other steps issue no ioctl.                        *)
(***************************************************************************)
THEOREM Harmless == IoSpec => ErrorLeavesMicrocodeAlone
<1> DEFINE Harm == /\ nioctl' # nioctl /\ ret' = "error"
                   /\ ~UNCHANGED <<shm, FORCEDEAF, CLEANDEAF>>
<1>1. ASSUME [IoNext]_ioVars, Harm PROVE FALSE
  <2>1. ASSUME NEW r \in Request, Handle(r) PROVE FALSE
    <3>1. CASE SetCsi(r) \/ GetCollect(r)
      BY <1>1, <3>1 DEF SetCsi, GetCollect
    <3>2. CASE ForceDeaf(r)
      BY <1>1, <3>2 DEF ForceDeaf
    <3>3. CASE CleanDeaf(r)
      BY <1>1, <3>3 DEF CleanDeaf
    <3>4. CASE SetPhaseJumps(r) \/ ReadObjmem(r)
      BY <1>1, <3>4 DEF SetPhaseJumps, ReadObjmem
    <3>5. QED
      BY <2>1, <3>1, <3>2, <3>3, <3>4 DEF Handle
  <2>2. CASE WriteShm \/ SetCsiDone
    BY <1>1, <2>2 DEF WriteShm, SetCsiDone
  <2>3. CASE wlc_down \/ wlc_up
    BY <1>1, <2>3 DEF wlc_down, wlc_up
  <2>4. CASE UNCHANGED ioVars
    BY <1>1, <2>4 DEF ioVars
  <2>5. QED
    BY <1>1, <2>1, <2>2, <2>3, <2>4 DEF IoNext, wlc_ioctl_hook
<1>2. [IoNext]_ioVars =>
         [(nioctl' # nioctl /\ ret' = "error") =>
             UNCHANGED <<shm, FORCEDEAF, CLEANDEAF>>]_ioVars
  BY <1>1
<1>3. QED
  BY <1>2, PTL DEF IoSpec, ErrorLeavesMicrocodeAlone
=============================================================================
