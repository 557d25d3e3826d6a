------------------------------ MODULE XzReader ------------------------------
(***************************************************************************)
(* xzDecompress and the streaming decoder under it, XzUnpacker_Code.  The    *)
(* loop offers the decoder all of the input that is left and 64 KB of        *)
(* output, collects what came out, and stops when the input is used up, when *)
(* nothing moves, or on an error; the decoder's state then tells whether a   *)
(* stream was finished.                                                     *)
(*                                                                          *)
(* The input is a sequence of parts: the headers, the packed data of a       *)
(* block with what each part of it unpacks to, the end mark, checks, index,  *)
(* footer, and padding of single zero bytes.  Streams may follow each other. *)
(* A part cut short is a part that is missing.                              *)
(***************************************************************************)
EXTENDS Integers, Sequences, Streams

CONSTANTS OutBuf,  \* XZ_DECODE_BUF
          Cap      \* ZMAT_MAX_ALLOC

VARIABLES
  parts,   \* the input
  xpc,     \* where the loop is
  src,     \* parts consumed
  from,    \* src when XzUnpacker_Code was called
  state,   \* p->state
  padSize, \* p->padSize
  pending, \* bytes the decoder holds that outBuf had no room for
  destLen, \* bytes in outBuf
  xtotal,   \* bytes in accum
  status,  \* the coder status
  xmem,    \* whether memory has failed
  xret     \* rc of xzDecompress

xvars == <<xpc, src, from, state, padSize, pending, destLen, xtotal, status, xmem, xret>>

Running == 1
Least(a, b) == IF a < b THEN a ELSE b

SrcLeft == Len(parts) - src
Ahead == parts[src + 1]
Is(kind) == SrcLeft > 0 /\ Ahead.kind = kind

-----------------------------------------------------------------------------
XzIdle ==
  /\ xpc = "loop" /\ src = 0 /\ from = 0 /\ state = "STREAM_HEADER" /\ padSize = 0
  /\ pending = 0 /\ destLen = 0 /\ xtotal = 0 /\ status = "NOT_SPECIFIED"
  /\ xmem = FALSE /\ xret = Running

GoesOn == SrcLeft > 0 \/ status = "NOT_FINISHED"

Call ==
  /\ xpc = "loop" /\ GoesOn
  /\ xpc' = "code" /\ from' = src /\ destLen' = 0 /\ status' = "NOT_SPECIFIED"
  /\ UNCHANGED <<parts, src, state, padSize, pending, xtotal, xmem, xret>>

LoopEnds ==
  /\ xpc = "loop" /\ ~GoesOn
  /\ xpc' = "end"
  /\ UNCHANGED <<parts, src, from, state, padSize, pending, destLen, xtotal, status, xmem, xret>>

(* XzUnpacker_Code: one step for each turn of its loop *)

\* MixCoder_Code puts out what the decoder holds ...
PutOut ==
  /\ xpc = "code" /\ state = "BLOCK" /\ pending > 0 /\ destLen < OutBuf
  /\ LET n == Least(pending, OutBuf - destLen)
     IN  destLen' = destLen + n /\ pending' = pending - n
  /\ UNCHANGED <<parts, xpc, src, from, state, padSize, xtotal, status, xmem, xret>>

\* ... and takes more in, up to the end mark of the block ...
TakeIn ==
  /\ xpc = "code" /\ state = "BLOCK" /\ pending = 0 /\ destLen < OutBuf
  /\ Is("data") \/ Is("mark")
  /\ src' = src + 1 /\ pending' = Ahead.gives
  /\ state' = IF Is("mark") THEN "BLOCK_FOOTER" ELSE "BLOCK"
  /\ UNCHANGED <<parts, xpc, from, padSize, destLen, xtotal, status, xmem, xret>>

\* ... until the output is full or the input used up.  With a filter before the decoder
\* a block that wants input is said to be not finished.
BlockReturns ==
  /\ xpc = "code" /\ state = "BLOCK"
  /\ \/ destLen = OutBuf /\ status' = "NOT_FINISHED"
     \/ /\ destLen < OutBuf /\ pending = 0 /\ SrcLeft = 0
        /\ status' \in {"NEEDS_MORE_INPUT", "NOT_FINISHED"}
  /\ xpc' = "called"
  /\ UNCHANGED <<parts, src, from, state, padSize, pending, destLen, xtotal, xmem, xret>>

\* What each state takes from the input, and the state after it.
Transition ==
  {<<"STREAM_HEADER", "header", "BLOCK_HEADER">>, <<"BLOCK_HEADER", "block", "BLOCK">>,
   <<"BLOCK_FOOTER", "check", "BLOCK_HEADER">>, <<"BLOCK_HEADER", "index", "STREAM_FOOTER">>,
   <<"STREAM_FOOTER", "footer", "STREAM_PADDING">>, <<"STREAM_PADDING", "pad", "STREAM_PADDING">>}

Take ==
  /\ xpc = "code" /\ SrcLeft > 0
  /\ \E t \in Transition : t[1] = state /\ t[2] = Ahead.kind /\ state' = t[3]
  /\ padSize' = IF Ahead.kind = "pad" THEN padSize + 1 ELSE IF Ahead.kind = "footer" THEN 0 ELSE padSize
  /\ src' = src + 1
  /\ UNCHANGED <<parts, xpc, from, pending, destLen, xtotal, status, xmem, xret>>

\* What is not zero after the padding is the header of another stream.
NextStream ==
  /\ xpc = "code" /\ state = "STREAM_PADDING" /\ SrcLeft > 0 /\ ~Is("pad") /\ padSize % 4 = 0
  /\ state' = "STREAM_HEADER"
  /\ UNCHANGED <<parts, xpc, src, from, padSize, pending, destLen, xtotal, status, xmem, xret>>

WantsInput ==
  /\ xpc = "code" /\ state # "BLOCK" /\ SrcLeft = 0
  /\ status' = "NEEDS_MORE_INPUT" /\ xpc' = "called"
  /\ UNCHANGED <<parts, src, from, state, padSize, pending, destLen, xtotal, xmem, xret>>

\* The next part is not what the state takes: SZ_ERROR_NO_ARCHIVE, _CRC or _DATA ...
Unexpected ==
  IF state = "BLOCK" THEN pending = 0 /\ destLen < OutBuf /\ ~Is("data") /\ ~Is("mark")
  ELSE IF state = "STREAM_PADDING" THEN ~Is("pad") /\ padSize % 4 # 0
  ELSE \A t \in Transition : ~(t[1] = state /\ t[2] = Ahead.kind)

\* ... or there is no memory for the decoder of a block.
CodeFails ==
  /\ xpc = "code" /\ SrcLeft > 0
  /\ \/ Unexpected /\ UNCHANGED xmem
     \/ state = "BLOCK_HEADER" /\ Is("block") /\ xmem' = TRUE
  /\ xret' = -1 /\ xpc' = "end"
  /\ UNCHANGED <<parts, src, from, state, padSize, pending, destLen, xtotal, status>>

(* xzDecompress after the call *)

\* A faulty cap: one piece may pass it.
TooMuchLate == xtotal > Cap

TooMuch == destLen > Cap - xtotal

\* A faulty loop: it does not see that nothing moved.
MovesAlways == TRUE

Moved == src > from \/ destLen > 0

Collect ==
  /\ xpc = "called"
  /\ \/ destLen > 0 /\ TooMuch /\ xret' = -2 /\ xpc' = "end" /\ UNCHANGED <<xtotal, xmem>>
     \/ destLen > 0 /\ ~TooMuch /\ xret' = -2 /\ xpc' = "end" /\ xmem' = TRUE /\ UNCHANGED xtotal
     \/ /\ destLen = 0 \/ ~TooMuch
        /\ xtotal' = xtotal + destLen
        /\ xpc' = IF Moved THEN "loop" ELSE "end"
        /\ UNCHANGED <<xmem, xret>>
  /\ UNCHANGED <<parts, src, from, state, padSize, pending, destLen, status>>

\* A faulty end: running out of input is enough.
StreamWasFinishedAlways == TRUE

\* XzUnpacker_IsStreamWasFinished
StreamWasFinished == state = "STREAM_PADDING" /\ padSize % 4 = 0

XzReturn ==
  /\ xpc = "end"
  /\ xpc' = "done"
  /\ xret' = IF xret = Running THEN (IF StreamWasFinished THEN 0 ELSE -1) ELSE xret
  /\ UNCHANGED <<parts, src, from, state, padSize, pending, destLen, xtotal, status, xmem>>

XzStep ==
  \/ Call \/ LoopEnds \/ PutOut \/ TakeIn \/ BlockReturns \/ Take \/ NextStream \/ WantsInput
  \/ CodeFails \/ Collect \/ XzReturn
=============================================================================
