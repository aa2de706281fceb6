------------------------------ MODULE CsiIoctl ------------------------------
(***************************************************************************)
(* wlc_ioctl_hook of src/src/ioctl.c: the requests with which the host     *)
(* configures the extractor.  The handler runs on the ARM core without     *)
(* being interrupted by other firmware code, but each wlc_bmac_write_shm   *)
(* is a step of its own, because the microcode reads the same words        *)
(* between any two of them.                                                *)
(*                                                                         *)
(* Data: a mask is the set of its bits, and the three words of a MAC       *)
(* address are one.  The reply of an ioctl is ret and, for 501, arg.       *)
(***************************************************************************)
EXTENDS Naturals, Sequences

CONSTANTS
    Chip,       \* the chip the firmware patch is built for
    Null,       \* no ioctl under way
    Chanspec,   \* the channel specifications the radio accepts
    Request,    \* the ioctls the host issues
    MaxIoctls   \* bound: the number of ioctls

\* The number of the framework's own ioctl that reads shared memory.
NEX_READ_OBJMEM == 406

\* Mutant: the number of MAC addresses is not written.
WordsWithoutCount ==
    <<"csi_collect", "nss_mask", "core_mask", "use_pkt_filter",
      "first_pkt_byte", "mac0", "mac1", "mac2", "mac3", "delay">>

\* The configuration words, in the order case 500 writes them.
Words == <<"csi_collect", "nss_mask", "core_mask", "n_mac_addr",
           "use_pkt_filter", "first_pkt_byte", "mac0", "mac1", "mac2",
           "mac3", "delay">>

\* Null is no ioctl under way.
ASSUME IoNullAssumption ==
    \A r \in Request, n \in 1..Len(Words) + 1 :
        r.cmd = 500 => [params |-> r.params, next |-> n] # Null

\* The words as the microcode's initial values leave them.
ShmReset ==
    [csi_collect |-> 0, nss_mask |-> {}, core_mask |-> {}, n_mac_addr |-> 0,
     use_pkt_filter |-> 0, first_pkt_byte |-> 0, mac0 |-> Null,
     mac1 |-> Null, mac2 |-> Null, mac3 |-> Null, delay |-> 0]

VARIABLES
    shm,                    \* configuration words in shared memory
    FORCEDEAF, CLEANDEAF,   \* request words in shared memory
    chanspec,               \* the channel the radio is tuned to
    scansuppress, mpc,      \* scanning is off, power saving is on
    hwup,                   \* wlc->hw->up
    no_phase_jumps,         \* the flag of ioctl 526
    ioctl,                  \* case 500 under way: Null or [params, next]
    ret, arg,               \* the last ioctl's result
    nioctl,                 \* the number of ioctls so far
    request,                \* history: the last ioctl issued, or Null
    installed               \* history: the parameters last acknowledged

ioVars == <<shm, FORCEDEAF, CLEANDEAF, chanspec, scansuppress, mpc, hwup,
            no_phase_jumps, ioctl, ret, arg, nioctl, request, installed>>

IoInit ==
    /\ scansuppress = FALSE
    /\ mpc = TRUE
    /\ no_phase_jumps = FALSE
    /\ hwup = TRUE
    /\ ioctl = Null
    /\ ret = "none" /\ arg = Null
    /\ nioctl = 0
    /\ request = Null /\ installed = Null

Accept(r) ==
    /\ ioctl = Null /\ nioctl < MaxIoctls
    /\ nioctl' = nioctl + 1
    /\ request' = r

(***************************************************************************)
(* case 500, up to the check: scanning, power saving and the channel are   *)
(* set first, and nothing looks at whether set_chanspec succeeded.  Two    *)
(* bytes are enough for the check: params are the 34 bytes from arg on,    *)
(* whatever follows a shorter request in its buffer.                       *)
(***************************************************************************)
SetCsi(r) ==
    /\ r.cmd = 500 /\ Accept(r)
    /\ scansuppress' = TRUE
    /\ mpc' = FALSE
    /\ chanspec' = IF r.params.chanspec \in Chanspec THEN r.params.chanspec
                                                     ELSE chanspec
    /\ IF hwup /\ r.len > 1
       THEN ioctl' = [params |-> r.params, next |-> 1] /\ ret' = "none"
       ELSE ioctl' = Null /\ ret' = "error"
    /\ UNCHANGED <<shm, FORCEDEAF, CLEANDEAF, hwup, no_phase_jumps, arg,
                   installed>>

\* case 500: one call of wlc_bmac_write_shm.
WriteShm ==
    /\ ioctl # Null /\ ioctl.next <= Len(Words)
    /\ LET w == Words[ioctl.next]
       IN  shm' = [shm EXCEPT ![w] = ioctl.params[w]]
    /\ ioctl' = [ioctl EXCEPT !.next = @ + 1]
    /\ UNCHANGED <<FORCEDEAF, CLEANDEAF, chanspec, scansuppress, mpc, hwup,
                   no_phase_jumps, ret, arg, nioctl, request, installed>>

\* Mutant: the handler returns one word early.
SetCsiDoneEarly ==
    /\ ioctl # Null /\ ioctl.next >= Len(Words)
    /\ ioctl' = Null
    /\ ret' = "success"
    /\ installed' = ioctl.params
    /\ UNCHANGED <<shm, FORCEDEAF, CLEANDEAF, chanspec, scansuppress, mpc,
                   hwup, no_phase_jumps, arg, nioctl, request>>

\* case 500: the end.
SetCsiDone ==
    /\ ioctl # Null /\ ioctl.next > Len(Words)
    /\ ioctl' = Null
    /\ ret' = "success"
    /\ installed' = ioctl.params
    /\ UNCHANGED <<shm, FORCEDEAF, CLEANDEAF, chanspec, scansuppress, mpc,
                   hwup, no_phase_jumps, arg, nioctl, request>>

\* case 501
GetCollect(r) ==
    /\ r.cmd = 501 /\ Accept(r)
    /\ IF hwup /\ r.len > 1
       THEN arg' = shm.csi_collect /\ ret' = "success"
       ELSE ret' = "error" /\ UNCHANGED arg
    /\ UNCHANGED <<shm, FORCEDEAF, CLEANDEAF, chanspec, scansuppress, mpc,
                   hwup, no_phase_jumps, ioctl, installed>>

\* Mutant: the request is stored before the interface is checked.
ForceDeafUnchecked(r) ==
    /\ r.cmd = 502 /\ Accept(r)
    /\ FORCEDEAF' = 1
    /\ ret' = IF hwup /\ r.len > 1 THEN "success" ELSE "error"
    /\ UNCHANGED <<shm, CLEANDEAF, chanspec, scansuppress, mpc, hwup,
                   no_phase_jumps, ioctl, arg, installed>>

\* case 502: force deaf mode
ForceDeaf(r) ==
    /\ r.cmd = 502 /\ Accept(r)
    /\ IF hwup /\ r.len > 1
       THEN FORCEDEAF' = 1 /\ ret' = "success"
       ELSE ret' = "error" /\ UNCHANGED FORCEDEAF
    /\ UNCHANGED <<shm, CLEANDEAF, chanspec, scansuppress, mpc, hwup,
                   no_phase_jumps, ioctl, arg, installed>>

\* case 503: clean deaf mode
CleanDeaf(r) ==
    /\ r.cmd = 503 /\ Accept(r)
    /\ IF hwup /\ r.len > 1
       THEN CLEANDEAF' = 1 /\ ret' = "success"
       ELSE ret' = "error" /\ UNCHANGED CLEANDEAF
    /\ UNCHANGED <<shm, FORCEDEAF, chanspec, scansuppress, mpc, hwup,
                   no_phase_jumps, ioctl, arg, installed>>

\* case 526, built for the bcm4366c0 only
SetPhaseJumps(r) ==
    /\ Chip = "bcm4366c0"
    /\ r.cmd = 526 /\ Accept(r)
    /\ IF hwup /\ r.len >= 4
       THEN no_phase_jumps' = r.value /\ ret' = "success"
       ELSE ret' = "error" /\ UNCHANGED no_phase_jumps
    /\ UNCHANGED <<shm, FORCEDEAF, CLEANDEAF, chanspec, scansuppress, mpc,
                   hwup, ioctl, arg, installed>>

\* case NEX_READ_OBJMEM
ReadObjmem(r) ==
    /\ r.cmd = NEX_READ_OBJMEM /\ Accept(r)
    /\ mpc' = FALSE
    /\ ret' = IF hwup /\ r.len >= 4 THEN "success" ELSE "error"
    /\ UNCHANGED <<shm, FORCEDEAF, CLEANDEAF, chanspec, scansuppress, hwup,
                   no_phase_jumps, ioctl, arg, installed>>

Handle(r) ==
    \/ SetCsi(r) \/ GetCollect(r) \/ ForceDeaf(r) \/ CleanDeaf(r)
    \/ SetPhaseJumps(r) \/ ReadObjmem(r)

wlc_ioctl_hook == (\E r \in Request : Handle(r)) \/ WriteShm \/ SetCsiDone

(***************************************************************************)
(* The firmware's own wlc_ioctl may take the interface down; bringing it   *)
(* up loads the microcode anew, with its shared memory initialised.        *)
(***************************************************************************)
wlc_down ==
    /\ ioctl = Null /\ hwup
    /\ hwup' = FALSE
    /\ UNCHANGED <<shm, FORCEDEAF, CLEANDEAF, chanspec, scansuppress, mpc,
                   no_phase_jumps, ioctl, ret, arg, nioctl, request,
                   installed>>

wlc_up ==
    /\ ioctl = Null /\ ~hwup
    /\ hwup' = TRUE
    /\ shm' = ShmReset
    /\ FORCEDEAF' = 0 /\ CLEANDEAF' = 0
    /\ installed' = Null
    /\ UNCHANGED <<chanspec, scansuppress, mpc, no_phase_jumps, ioctl, ret,
                   arg, nioctl, request>>

IoNext == wlc_ioctl_hook \/ wlc_down \/ wlc_up

\* The handler alone, after the microcode has been loaded.
IoAlone ==
    /\ IoInit
    /\ shm = ShmReset
    /\ FORCEDEAF = 0 /\ CLEANDEAF = 0
    /\ chanspec \in Chanspec

IoSpec == IoAlone /\ [][IoNext]_ioVars

-----------------------------------------------------------------------------
(***************************************************************************)
(* Between two ioctls the words the microcode filters by are those of the  *)
(* one configuration last acknowledged to the host, every one of them.     *)
(***************************************************************************)
AcknowledgedIsInstalled ==
    (ioctl = Null /\ installed # Null) =>
        \A i \in 1..Len(Words) : shm[Words[i]] = installed[Words[i]]

(***************************************************************************)
(* An ioctl that reports an error has changed nothing the microcode sees:  *)
(* neither the configuration nor the deaf requests.                        *)
(***************************************************************************)
ErrorLeavesMicrocodeAlone ==
    [][(nioctl' # nioctl /\ ret' = "error") =>
          UNCHANGED <<shm, FORCEDEAF, CLEANDEAF>>]_ioVars
=============================================================================
