------------------------------- MODULE Stream -------------------------------
(***************************************************************************)
(* Stream and StreamBuffered (src/src/lib/stream.cpp) over a FILE whose    *)
(* operations may fail, from Stream::create() to the destructors of Log    *)
(* and Stream.  The bytes a program writes are numbered 1, 2, 3, ..., so   *)
(* the order in which they arrive, and which are lost or written twice,    *)
(* can be read off what is in the file.                                    *)
(*                                                                         *)
(* The FILE is external: fwrite accepts all bytes or, with ferror set from *)
(* then on, the first few; fflush moves what was accepted to the file or,  *)
(* with ferror set, the first few of it, and then the C library may keep   *)
(* the rest for a later flush or drop it.                                  *)
(***************************************************************************)
EXTENDS Integers, Sequences

CONSTANTS WriteLens,    \* lengths of the writes
          BufferSizes,  \* what StreamBuffered's never initialised bufferSize may hold
          Usable,       \* bytes that new char(LOG_STREAM_BUFFER_SIZE), one char, really gives
          MaxCalls      \* bound: calls of write and flush

ASSUME StreamAssumption ==
    /\ WriteLens \subseteq Nat \ {0}
    /\ BufferSizes \subseteq Nat
    /\ Usable \in Nat /\ MaxCalls \in Nat

VARIABLES mode,          \* UNCOMPRESSED or BUFFERED_UNCOMPRESS
          fileHandle,    \* fileHandle_: null, open or closed
          ferror,        \* the error flag of the FILE
          accepted,      \* bytes in the buffer of the FILE
          disk,          \* bytes in the file
          bufferSize,    \* StreamBuffered::bufferSize
          buffer,        \* StreamBuffered's bytes below bufferIdx
          ioWriteError,  \* stats.ioWriteError, counted from its uninitialised first value
          given,         \* history: bytes passed to write()
          streamCalls,   \* calls so far
          life           \* live, closed (by ~Log), destroyed or dead (exception or crash)

streamVars == <<mode, fileHandle, ferror, accepted, disk, bufferSize, buffer,
                ioWriteError, given, streamCalls, life>>

bufferIdx == Len(buffer)
Bytes(len) == [k \in 1..len |-> given + k]

(* Stream::create() of what createTracefile's fopen returned, or of stdout *)
StreamInit ==
    /\ mode \in {"plain", "buffered"}
    /\ fileHandle \in {"null", "open"}
    /\ bufferSize \in BufferSizes
    /\ ferror = FALSE
    /\ accepted = <<>> /\ disk = <<>> /\ buffer = <<>>
    /\ ioWriteError = 0 /\ given = 0 /\ streamCalls = 0
    /\ life = "live"

-----------------------------------------------------------------------------
(* fwrite(bytes, 1, Len(bytes), fileHandle_) returns written. *)
fwrite(bytes, written) ==
    /\ written \in 0..Len(bytes)
    /\ accepted' = accepted \o SubSeq(bytes, 1, written)
    /\ ferror' = (ferror \/ written < Len(bytes))

(* fflush(fileHandle_) moves this many bytes; those it cannot move stay in *)
(* the FILE or are gone.                                                   *)
fflush(moved) ==
    /\ moved \in 0..Len(accepted)
    /\ disk' = disk \o SubSeq(accepted, 1, moved)
    /\ accepted' \in {SubSeq(accepted, moved + 1, Len(accepted)), <<>>}
    /\ ferror' = (ferror \/ moved < Len(accepted))

CountCall == streamCalls < MaxCalls /\ streamCalls' = streamCalls + 1

(* An exception nobody catches, or memory that is not the stream's *)
Die ==
    /\ life' = "dead"
    /\ UNCHANGED <<mode, fileHandle, ferror, accepted, disk, bufferSize, buffer, ioWriteError, given>>

(* Mutant: the count is looked at, the error flag is not *)
Written_shortOnly(bytes, written) ==
    /\ fwrite(bytes, written)
    /\ ioWriteError' = IF written < Len(bytes) THEN ioWriteError + 1 ELSE ioWriteError

(* written != len || ferror(fileHandle_) *)
Written(bytes, written) ==
    /\ fwrite(bytes, written)
    /\ ioWriteError' = IF ferror' THEN ioWriteError + 1 ELSE ioWriteError

(* Mutant: what was not written is tried again from its start *)
PlainWrite_again(len) ==
    /\ life = "live" /\ mode = "plain" /\ CountCall
    /\ given' = given + len
    /\ \E written \in 0..len :
          /\ accepted' = accepted \o SubSeq(Bytes(len), 1, written)
                \o (IF written < len THEN Bytes(len) ELSE <<>>)
          /\ ferror' = (ferror \/ written < len)
          /\ ioWriteError' = IF ferror' THEN ioWriteError + 1 ELSE ioWriteError
    /\ UNCHANGED <<mode, fileHandle, disk, bufferSize, buffer, life>>

(* Stream::write(); fwrite to a null FILE is a crash. *)
PlainWrite(len) ==
    /\ life = "live" /\ mode = "plain" /\ CountCall
    /\ \/ fileHandle = "null" /\ Die
       \/ /\ fileHandle = "open"
          /\ given' = given + len
          /\ \E written \in 0..len : Written(Bytes(len), written)
          /\ UNCHANGED <<mode, fileHandle, disk, bufferSize, buffer, life>>

(* Stream::flush(), which ignores what fflush returns; without a FILE it   *)
(* does nothing.                                                           *)
PlainFlush ==
    /\ life = "live" /\ mode = "plain" /\ CountCall
    /\ fileHandle = "open"
    /\ \E moved \in 0..Len(accepted) : fflush(moved)
    /\ UNCHANGED <<mode, fileHandle, bufferSize, buffer, ioWriteError, given, life>>

(* Mutant: what is already in the buffer does not count *)
bufferHasRoom_empty(len) == len <= bufferSize

(* len <= bufferSize - bufferIdx, on unsigned ints: once bufferIdx is the  *)
(* larger one the difference is huge.                                      *)
bufferHasRoom(len) == bufferIdx > bufferSize \/ len <= bufferSize - bufferIdx

(* StreamBuffered::flush(): an error leaves bufferIdx where it is; what is *)
(* left in the buffer is rest. Without a FILE it does nothing at all.      *)
EmptyBuffer(rest) ==
    \/ /\ fileHandle = "null"
       /\ rest = buffer
       /\ UNCHANGED <<accepted, ferror, ioWriteError>>
    \/ /\ fileHandle = "open"
       /\ \E written \in 0..bufferIdx : Written(buffer, written)
       /\ rest = IF ferror' THEN buffer ELSE <<>>

BufferedFlush ==
    /\ life = "live" /\ mode = "buffered" /\ CountCall
    /\ \E rest \in {buffer, <<>>} : EmptyBuffer(rest) /\ buffer' = rest
    /\ UNCHANGED <<mode, fileHandle, disk, bufferSize, given, life>>

(* StreamBuffered::write(): too long a write throws; a full buffer is      *)
(* flushed; the memcpy may run beyond the memory that new gave.            *)
BufferedWrite(len) ==
    /\ life = "live" /\ mode = "buffered" /\ CountCall
    /\ \/ len > bufferSize /\ Die
       \/ /\ len <= bufferSize
          /\ \E rest \in {buffer, <<>>} :
                /\ IF bufferHasRoom(len)
                   THEN rest = buffer /\ UNCHANGED <<accepted, ferror, ioWriteError>>
                   ELSE EmptyBuffer(rest)
                /\ buffer' = rest \o Bytes(len)
          /\ life' = IF Len(buffer') > Usable THEN "dead" ELSE "live"
          /\ given' = given + len
          /\ UNCHANGED <<mode, fileHandle, disk, bufferSize>>

(* The C library writes its buffer out when it likes, and may fail. *)
WriteBack ==
    /\ fileHandle = "open" /\ life = "live"
    /\ accepted # <<>>
    /\ \E moved \in 0..Len(accepted) : fflush(moved)
    /\ UNCHANGED <<mode, fileHandle, bufferSize, buffer, ioWriteError, given, streamCalls, life>>

(* Mutant: the file is closed by hand, without what the FILE has buffered *)
CloseFile_unflushed ==
    /\ life = "live" /\ fileHandle = "open"
    /\ accepted' = <<>>
    /\ fileHandle' = "closed"
    /\ life' = "closed"
    /\ UNCHANGED <<mode, ferror, disk, bufferSize, buffer, ioWriteError, given, streamCalls>>

(* ~Log(): fflush and fclose of the handle; bytes that still cannot be     *)
(* written are gone.                                                       *)
CloseFile ==
    /\ life = "live" /\ fileHandle = "open"
    /\ \E moved \in 0..Len(accepted) :
          /\ disk' = disk \o SubSeq(accepted, 1, moved)
          /\ ferror' = (ferror \/ moved < Len(accepted))
    /\ accepted' = <<>>
    /\ fileHandle' = "closed"
    /\ life' = "closed"
    /\ UNCHANGED <<mode, bufferSize, buffer, ioWriteError, given, streamCalls>>

(* ~Stream(), which is not virtual: cleanup() and flush() are Stream's own. *)
(* The stream of stdout dies with its handle open. That of a Log has had    *)
(* its handle closed: fflush of it is undefined, and may crash.             *)
DestroyStream ==
    /\ life \in {"live", "closed"}
    /\ \/ fileHandle = "open" /\ \E moved \in 0..Len(accepted) : fflush(moved)
       \/ fileHandle # "open" /\ UNCHANGED <<disk, accepted, ferror>>
    /\ life' \in IF fileHandle = "closed" THEN {"destroyed", "dead"} ELSE {"destroyed"}
    /\ fileHandle' = "null"
    /\ UNCHANGED <<mode, bufferSize, buffer, ioWriteError, given, streamCalls>>

StreamNext ==
    \/ \E len \in WriteLens : PlainWrite(len) \/ BufferedWrite(len)
    \/ PlainFlush
    \/ BufferedFlush
    \/ WriteBack
    \/ CloseFile
    \/ DestroyStream

StreamSpec == StreamInit /\ [][StreamNext]_streamVars

-----------------------------------------------------------------------------
All == [k \in 1..given |-> k]

Intact == disk \o accepted \o buffer = All

(* The calls that look at the FILE's error flag before they return *)
CheckedCall ==
    \/ \E len \in WriteLens : PlainWrite(len)
    \/ BufferedFlush /\ fileHandle = "open"

(* Damage does not stay unnoticed, though flush() ignores what fflush says *)
(* and the C library may drop what it could not write: when write() of a   *)
(* plain stream, or flush() of a buffered one, returns and a byte passed   *)
(* to write() before is lost, repeated or out of place, then this very     *)
(* call has counted in ioWriteError, whichever earlier write, flush or     *)
(* write-back did the damage.                                              *)
DamageCounted ==
    [][CheckedCall /\ life' = "live" => ioWriteError' > ioWriteError \/ Intact']_streamVars

(* Stream::write() is at most once: a byte is never written twice and      *)
(* never after a later one, whatever fails and however often it is called. *)
PlainNeverRepeats ==
    mode = "plain" => \A j, k \in 1..Len(disk \o accepted) :
        j < k => (disk \o accepted)[j] < (disk \o accepted)[k]

(* StreamBuffered stays within its buffer, if bufferSize happens to hold a *)
(* size its memory has and until the first error: write() leaves room by   *)
(* flushing, and only too long a write, which throws, ends the stream.     *)
BufferInBounds ==
    (mode = "buffered" /\ bufferSize <= Usable /\ fileHandle = "open" /\ ioWriteError = 0) =>
        bufferIdx <= bufferSize

(* The trace file is complete when ~Log() has closed it, and stdout when   *)
(* its stream has died: no error, and every byte of an unbuffered stream   *)
(* is in the file, though fclose() comes before the last flush().          *)
CompleteAtEnd ==
    (mode = "plain" /\ life \in {"closed", "destroyed"} /\ ~ferror) => disk = All
=============================================================================
