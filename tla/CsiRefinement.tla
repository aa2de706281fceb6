--------------------------- MODULE CsiRefinement ---------------------------
(***************************************************************************)
(* The extractor implements the service it promises, as long as its        *)
(* configuration stays put.  What is delivered is read off the UDP frames  *)
(* alone, the way README.md:51 tells a receiver to read them.              *)
(***************************************************************************)
EXTENDS CsiExtractor

CONSTANT Lossy

\* The (core, stream) pairs the masks select.
SelectedPairs(cfg) ==
    {p \in (0..(Uc!NCORES - 1)) \X (0..(Uc!NSS - 1)) :
        p[1] \in cfg.core_mask /\ p[2] \in cfg.nss_mask}

\* The measurement a receiver reads in a UDP frame.
Corrupt == [frame |-> Null, chan |-> Null, core |-> 0, nss |-> 0]
Measured(u) ==
    LET first == u.blocks[1]
    IN  IF /\ Unmixed(u)
           /\ Len(u.blocks) = Uc!CHUNKS(first.chan)
           /\ \A k \in 1..Len(u.blocks) : u.blocks[k].id = u.src
           /\ u.rssi = u.src /\ u.phy = u.src
           /\ u.csiconf = first.core + 8 * first.nss
           /\ u.words = 64 * (IF BwCode[u.chanspec] = 4 THEN 4
                              ELSE IF BwCode[u.chanspec] = 3 THEN 2 ELSE 1)
        THEN [frame |-> u.src, chan |-> u.chanspec, core |-> u.csiconf % 8,
              nss |-> (u.csiconf \div 8) % 8]
        ELSE Corrupt

\* What a frame received on some channel asks for.
Asked(c) ==
    IF Matches(shm, c.frame)
    THEN {[frame |-> c.frame, chan |-> c.chan, core |-> p[1], nss |-> p[2]] :
              p \in SelectedPairs(shm)}
    ELSE {}

(***************************************************************************)
(* Two history variables: the measurements delivered, and those asked for  *)
(* by the frames completed that may still be delivered (the ones that come *)
(* after the last one delivered).                                          *)
(***************************************************************************)
VARIABLES owed, delivered

rvars == <<vars, owed, delivered>>

RInit == Init /\ owed = {} /\ delivered = <<>>

Service == INSTANCE CsiService WITH
               Wanted <- {f \in Frame : \E cfg \in InitShm : Matches(cfg, f)},
               Selected <- SelectedPairs(CHOOSE cfg \in InitShm : TRUE),
               heard <- IF completed = Null THEN 0 ELSE completed.frame.n

History ==
    /\ delivered' = IF sent' = sent THEN delivered
                                    ELSE Append(delivered, Measured(sent'))
    /\ owed' =
         IF completed' # completed THEN owed \cup Asked(completed')
         ELSE IF sent' = sent \/ Measured(sent') \notin owed THEN owed
         ELSE {x \in owed : Service!Earlier(Measured(sent'), x)}

RNext == Next /\ History

RFairness ==
    /\ WF_rvars(Microcode /\ History)
    /\ WF_rvars(ArmReceive /\ History)
    /\ WF_rvars(ArmHook /\ History)
    /\ WF_rvars(Buffers /\ History)
    /\ WF_rvars(FrameEnds /\ History)

RSpec == RInit /\ [][RNext]_rvars /\ RFairness

(***************************************************************************)
(* Every step of the extractor is a step of the service, and (when nothing *)
(* is lost) every measurement owed is delivered in the end.                *)
(***************************************************************************)
ImplementsService == Service!Spec
=============================================================================
