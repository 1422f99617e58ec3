---------------------------- MODULE MCComponents ----------------------------
(***************************************************************************)
(* The components that share no state, side by side: allocate() and the    *)
(* copies of the ring, the formats, the atomic counters, the entry ids and *)
(* the streams.                                                            *)
(* part names the one that runs; the others stay in an initial state, so   *)
(* the states are the sum of the components' states and not the product.   *)
(***************************************************************************)
EXTENDS RingBuffer, MCRingMemory, MCStringFormat, Atomic, EntryId, Stream

CONSTANTS a1, a2, Parts

VARIABLE part

ringVars == vars
allVars == <<part, ringVars, copyVars, format, atomicVars, idVars, streamVars>>

AllInit ==
    /\ part \in Parts
    /\ Init /\ (part # "ring" => ~threadSafe /\ currentIndex = 0
                                 /\ indexWrapAroundCount = CHOOSE n \in Garbage : TRUE)
    /\ CopyInit
    /\ FormatInit /\ (part # "formats" => format = <<>>)
    /\ AtomicInit /\ (part # "atomic" => total = CHOOSE n \in Adds : TRUE)
    /\ IdInit /\ (part # "ids" => globalId = 0)
    /\ StreamInit /\ (part # "stream" => /\ mode = "plain" /\ fileHandle = "null"
                                         /\ bufferSize = CHOOSE n \in BufferSizes : TRUE)

AllNext ==
    /\ UNCHANGED part
    /\ \/ /\ part = "ring" /\ Next
          /\ UNCHANGED <<copyVars, format, atomicVars, idVars, streamVars>>
       \/ /\ part = "copies" /\ CopyNext
          /\ UNCHANGED <<ringVars, format, atomicVars, idVars, streamVars>>
       \/ /\ part = "formats" /\ FormatNext
          /\ UNCHANGED <<ringVars, copyVars, atomicVars, idVars, streamVars>>
       \/ /\ part = "atomic" /\ AtomicNext
          /\ UNCHANGED <<ringVars, copyVars, format, idVars, streamVars>>
       \/ /\ part = "ids" /\ IdNext
          /\ UNCHANGED <<ringVars, copyVars, format, atomicVars, streamVars>>
       \/ /\ part = "stream" /\ StreamNext
          /\ UNCHANGED <<ringVars, copyVars, format, atomicVars, idVars>>

AllSpec == AllInit /\ [][AllNext]_allVars

(* Only the ring needs fairness, the one of its FairSpec. *)
AllFairSpec == AllSpec /\ \A t \in Threads : WF_vars(Allocating(t))

-----------------------------------------------------------------------------
(* set() and get() of the ring, whichever of their two memcpy calls a byte *)
(* goes through, mean what they mean cell by cell.                         *)
CopiesGoRound == part = "copies" => SetGoesRound /\ GetGoesRound

(* compare() and getString() go round the end of the ring byte by byte:    *)
(* the one is equality of what get() returns, the other ends at the first  *)
(* zero or after exactly one turn.                                         *)
ScansGoRound == part = "copies" => CompareIsEquality /\ GetStringEnds
=============================================================================
