----------------------------- MODULE LzssStream -----------------------------
(***************************************************************************)
(* camtac/lzss.go: how literals and pairs become bytes, and back.          *)
(*                                                                         *)
(* Compress collects FlagBits items behind a byte of flags and then        *)
(* flushes them (outputChar, outputPair, flushOutputBuffer).  Expand takes *)
(* the bytes apart again and copies pairs out of its window.  The reader   *)
(* of a mission file hands it the compressed part of the file, which may   *)
(* be cut short, and the size the file's header names, which may be wrong. *)
(*                                                                         *)
(* Bytes are numbers below ByteSize.  flagBitMask is modelled by the number*)
(* of its bit, so that shifting it adds one.  Which items there are is     *)
(* LzssCompress's subject: here they come in any order.                    *)
(***************************************************************************)
EXTENDS Integers, Sequences

CONSTANTS
  FlagBits,    \* flags in a byte: 8 in the code
  ByteSize,    \* values of a byte: 256
  HighSize,    \* values of a position's high bits, beside the length: 16
  BreakEven,   \* 1
  Literals,    \* the literals put out
  Pairs,       \* the pairs put out: [position, length]
  MaxItems     \* bound: literals and pairs put out

Byte == 0 .. ByteSize - 1
WindowSize == ByteSize * HighSize
Position == 0 .. WindowSize - 1

(* flagBitMask, from 1 on shifted left once for every item.                *)
Mask[bit \in 0 .. FlagBits] == IF bit = 0 THEN 1 ELSE 2 * Mask[bit - 1]

ASSUME FlagBitsAssumption == FlagBits \in Nat \ {0}
ASSUME SizesAssumption == ByteSize \in Nat \ {0} /\ HighSize \in Nat \ {0}
ASSUME MasksAssumption == Mask[FlagBits] <= ByteSize
ASSUME BoundsAssumption == BreakEven \in Nat /\ MaxItems \in Nat
ASSUME LiteralsAssumption == Literals \subseteq Byte
ASSUME PairsAssumption ==
  Pairs \subseteq [position : Position,
                   length : {l \in Nat : l * HighSize + HighSize <= ByteSize}]
(* No pair writes a place of the window twice: 17 symbols at most, of 4096.*)
ASSUME MatchesAssumption == \A pair \in Pairs : pair.length + BreakEven + 1 <= WindowSize

ModWindow(a) == a % WindowSize

VARIABLES
  phase,            \* "compress", "expand", "ok" or "error"
  items,            \* history: the literals and pairs put out
  \* Compress
  dataBuffer, bufferOffset,
  flagBit,          \* flagBitMask: the next item's flag
  incOutputString,  \* has the last item filled the buffer?
  stream,           \* the compressed bytes
  \* Expand
  input, outputSize,
  flags, inputBit,  \* its dataBuffer[0] and flagBitMask
  inputIndex,
  window, currentPosition,
  output, outputIndex, remaining

packVars == <<items, dataBuffer, bufferOffset, flagBit, incOutputString, stream>>
parseVars == <<flags, inputBit, inputIndex>>
copyVars == <<window, currentPosition, output, outputIndex, remaining>>
vars == <<phase, packVars, input, outputSize, parseVars, copyVars>>

Item == [literal : Literals] \cup [pair : Pairs]
Offsets == 0 .. 2 * FlagBits       \* dataBuffer's

TypeOK ==
  /\ phase \in {"compress", "expand", "ok", "error"}
  /\ items \in Seq(Item) /\ Len(items) <= MaxItems
  /\ dataBuffer \in [Offsets -> Byte]
  /\ bufferOffset \in 1 .. 2 * FlagBits + 1
  /\ flagBit \in 0 .. FlagBits
  /\ incOutputString \in BOOLEAN
  /\ stream \in Seq(Byte)
  /\ input \in Seq(Byte)
  /\ outputSize \in Int
  /\ flags \in Byte
  /\ inputBit \in 0 .. FlagBits
  /\ inputIndex \in 0 .. Len(input)
  /\ window \in [Position -> Byte]
  /\ currentPosition \in Position
  /\ output \in Seq(Byte)
  /\ outputIndex \in Nat
  /\ remaining \in Nat

Init ==
  /\ phase = "compress"
  /\ items = <<>>
  /\ dataBuffer = [i \in Offsets |-> 0]
  /\ bufferOffset = 1
  /\ flagBit = 0
  /\ incOutputString = FALSE
  /\ stream = <<>>
  /\ input = <<>>
  /\ outputSize = 0
  /\ flags = 0
  /\ inputBit = 0
  /\ inputIndex = 0
  /\ window = [p \in Position |-> 0]
  /\ currentPosition = 1
  /\ output = <<>>
  /\ outputIndex = 0
  /\ remaining = 0

-----------------------------------------------------------------------------
(* Compress: its output buffer.                                            *)

(* Mutant of Flush: the next group is appended to this one.                *)
FlushOnly(buffer, offset) ==
  /\ stream' = stream \o [i \in 1 .. offset |-> buffer[i - 1]]
  /\ dataBuffer' = [buffer EXCEPT ![0] = 0]
  /\ flagBit' = 0
  /\ bufferOffset' = IF offset < 2 * FlagBits THEN offset ELSE 1

(* flushOutputBuffer with offset bytes in the buffer, after which          *)
(* initOutputBuffer starts the next group.                                 *)
Flush(buffer, offset) ==
  /\ stream' = stream \o [i \in 1 .. offset |-> buffer[i - 1]]
  /\ dataBuffer' = [buffer EXCEPT ![0] = 0]
  /\ flagBit' = 0
  /\ bufferOffset' = 1

(* Mutant of FlushIfFull: the mask is compared with one bit too many.      *)
FlushLate(buffer, offset) ==
  \/ /\ flagBit = FlagBits
     /\ Flush(buffer, offset)
     /\ incOutputString' = TRUE
  \/ /\ flagBit # FlagBits
     /\ flagBit' = flagBit + 1
     /\ dataBuffer' = buffer
     /\ bufferOffset' = offset
     /\ incOutputString' = FALSE
     /\ UNCHANGED stream

(* After an item the buffer is flushed if that was the last flag.          *)
FlushIfFull(buffer, offset) ==
  \/ /\ flagBit + 1 = FlagBits
     /\ Flush(buffer, offset)
     /\ incOutputString' = TRUE
  \/ /\ flagBit + 1 # FlagBits
     /\ flagBit' = flagBit + 1
     /\ dataBuffer' = buffer
     /\ bufferOffset' = offset
     /\ incOutputString' = FALSE
     /\ UNCHANGED stream

PutsOut(item) ==
  /\ phase = "compress"
  /\ Len(items) < MaxItems
  /\ items' = Append(items, item)
  /\ UNCHANGED <<phase, input, outputSize, parseVars, copyVars>>

OutputChar(data) ==
  /\ PutsOut([literal |-> data])
  /\ FlushIfFull([dataBuffer EXCEPT ![bufferOffset] = data, ![0] = @ + Mask[flagBit]],
                 bufferOffset + 1)

OutputPair(pair) ==
  /\ PutsOut([pair |-> pair])
  /\ FlushIfFull([dataBuffer EXCEPT
                    ![bufferOffset] = pair.length * HighSize + pair.position \div ByteSize,
                    ![bufferOffset + 1] = pair.position % ByteSize],
                 bufferOffset + 2)

(* The end of Compress flushes what the last item has not.                 *)
Compressed ==
  IF incOutputString \/ bufferOffset = 1 THEN stream
  ELSE stream \o [i \in 1 .. bufferOffset |-> dataBuffer[i - 1]]

-----------------------------------------------------------------------------
(* Expand.                                                                 *)

(* It is called with data that may end early and a size that may be wrong. *)
Expand(length, size) ==
  /\ phase = "compress"
  /\ input' = SubSeq(Compressed, 1, length)
  /\ outputSize' = size
  /\ stream' = Compressed
  /\ \/ /\ size < 0 \/ (length = 0 /\ size > 0)
        /\ phase' = "error"
        /\ UNCHANGED <<parseVars, copyVars>>
     \/ /\ length = 0 /\ size = 0
        /\ phase' = "ok"
        /\ UNCHANGED <<parseVars, copyVars>>
     \/ /\ length > 0 /\ size >= 0
        /\ phase' = "expand"
        /\ flags' = Compressed[1]
        /\ inputBit' = 0
        /\ inputIndex' = 1
        /\ remaining' = size
        /\ output' = [i \in 1 .. size |-> 0]
        /\ UNCHANGED <<window, currentPosition, outputIndex>>
  /\ UNCHANGED <<items, dataBuffer, bufferOffset, flagBit, incOutputString>>

(* inputBit(): after the last flag of a byte the next byte is the flags.   *)
NeedsFlags == inputBit = FlagBits
Flags == IF NeedsFlags THEN input[inputIndex + 1] ELSE flags
Bit == IF NeedsFlags THEN 0 ELSE inputBit
IsLiteral == (Flags \div Mask[Bit]) % 2 = 1

(* Where the item is, in the code's counting from 0.                       *)
ItemIndex == IF NeedsFlags THEN inputIndex + 1 ELSE inputIndex

InLoop == phase = "expand" /\ remaining > 0

(* The item takes n bytes.                                                 *)
Reads(n) ==
  /\ flags' = Flags
  /\ inputBit' = Bit + 1
  /\ inputIndex' = ItemIndex + n

(* Mutant of UnexpectedEnd: the last byte of the input is not used.        *)
EndsEarly ==
  /\ InLoop
  /\ ItemIndex + 1 >= Len(input)
  /\ phase' = "error"
  /\ UNCHANGED <<packVars, input, outputSize, parseVars, copyVars>>

(* Any of the three errors about the end of the input.                     *)
UnexpectedEnd ==
  /\ InLoop
  /\ \/ NeedsFlags /\ inputIndex >= Len(input)
     \/ /\ ~(NeedsFlags /\ inputIndex >= Len(input))
        /\ IF IsLiteral THEN ItemIndex >= Len(input) ELSE ItemIndex + 1 >= Len(input)
  /\ phase' = "error"
  /\ UNCHANGED <<packVars, input, outputSize, parseVars, copyVars>>

(* n symbols are written to the output and the window, the i-th of them    *)
(* symbol[i].                                                              *)
Writes(n, symbol) ==
  /\ output' = [i \in 1 .. Len(output) |->
                  IF i \in outputIndex + 1 .. outputIndex + n
                  THEN symbol[i - outputIndex - 1] ELSE output[i]]
  /\ outputIndex' = outputIndex + n
  /\ window' = [p \in Position |->
                  IF ModWindow(p - currentPosition) < n
                  THEN symbol[ModWindow(p - currentPosition)] ELSE window[p]]
  /\ currentPosition' = ModWindow(currentPosition + n)

ExpandLiteral ==
  /\ InLoop
  /\ ItemIndex < Len(input)
  /\ IsLiteral
  /\ Reads(1)
  /\ Writes(1, [i \in {0} |-> input[ItemIndex + 1]])
  /\ remaining' = remaining - 1
  /\ UNCHANGED <<phase, packVars, input, outputSize>>

(* Mutant of Copied: all symbols are read before the first is written.     *)
CopiedAtOnce(from, n) == [i \in 0 .. n - 1 |-> window[ModWindow(from + i)]]

(* What was just written may be copied again.                              *)
Copied(from, n) ==
  LET symbol[i \in 0 .. n - 1] ==
        LET back == ModWindow(from + i - currentPosition)
        IN  IF back < i THEN symbol[back] ELSE window[ModWindow(from + i)]
  IN  symbol

MatchLength == input[ItemIndex + 1] \div HighSize + BreakEven
MatchPosition == (input[ItemIndex + 1] % HighSize) * ByteSize + input[ItemIndex + 2]

(* Mutant of TakesPair: what remains is not compared with the pair.        *)
TakesAll ==
  /\ Writes(MatchLength + 1, Copied(MatchPosition, MatchLength + 1))
  /\ remaining' = IF MatchLength < remaining THEN remaining - (MatchLength + 1) ELSE 0

(* The last pair may be longer than what remains.  The code then sets      *)
(* remaining to 0 before it takes the length from it, so that the loop     *)
(* copies nothing.                                                         *)
TakesPair ==
  \/ /\ MatchLength < remaining
     /\ remaining' = remaining - (MatchLength + 1)
     /\ Writes(MatchLength + 1, Copied(MatchPosition, MatchLength + 1))
  \/ /\ MatchLength >= remaining
     /\ remaining' = 0
     /\ UNCHANGED <<output, outputIndex, window, currentPosition>>

ExpandPair ==
  /\ InLoop
  /\ ItemIndex + 1 < Len(input)
  /\ ~IsLiteral
  /\ Reads(2)
  /\ TakesPair
  /\ UNCHANGED <<phase, packVars, input, outputSize>>

Return ==
  /\ phase = "expand"
  /\ remaining = 0
  /\ phase' = "ok"
  /\ UNCHANGED <<packVars, input, outputSize, parseVars, copyVars>>

-----------------------------------------------------------------------------
(* What the items stand for, with no window and no bytes: a pair's         *)
(* position is that of the latest symbol that was written there.           *)
SymbolAt(out, position) ==
  LET there == {t \in 1 .. Len(out) : ModWindow(t) = position}
  IN  IF there = {} THEN 0 ELSE out[CHOOSE t \in there : \A u \in there : u <= t]

(* n symbols more, copied from position from on.                           *)
Extended(out, from, n) ==
  LET longer[i \in 0 .. n] ==
        IF i = 0 THEN out
        ELSE Append(longer[i - 1], SymbolAt(longer[i - 1], ModWindow(from + (i - 1))))
  IN  longer[n]

(* What the first i of the items stand for.                                *)
Expansions ==
  LET after[i \in 0 .. Len(items)] ==
        IF i = 0 THEN <<>>
        ELSE IF "literal" \in DOMAIN items[i] THEN Append(after[i - 1], items[i].literal)
        ELSE Extended(after[i - 1], items[i].pair.position,
                      items[i].pair.length + BreakEven + 1)
  IN  after

Expansion == Expansions[Len(items)]

Next ==
  \/ \E data \in Literals : OutputChar(data)
  \/ \E pair \in Pairs : OutputPair(pair)
  \/ \E length \in 0 .. Len(Compressed), size \in -1 .. Len(Expansion) + 1 :
       Expand(length, size)
  \/ UnexpectedEnd \/ ExpandLiteral \/ ExpandPair \/ Return

Spec == Init /\ [][Next]_vars

-----------------------------------------------------------------------------
(* The buffer has room for the next item, whatever items there were: two   *)
(* bytes per flag and the byte of flags (dataBuffer [17]byte).             *)
BufferFits == flagBit < FlagBits /\ bufferOffset <= 2 * flagBit + 1

(* Expand never writes outside its output, whatever it is given.  It also  *)
(* accounts for every byte: what was written and what remains add up to    *)
(* the size, until a last pair that is longer than what remains is left    *)
(* out altogether.                                                         *)
OutputFits ==
  phase \in {"expand", "ok"} =>
    /\ Len(output) = outputSize
    /\ \/ outputIndex + remaining = outputSize
       \/ remaining = 0 /\ outputIndex < outputSize

(* Whatever the input is cut to and whatever size is asked for, what Expand*)
(* has written is the beginning of what the literals and pairs stand for.  *)
PrefixExpanded ==
  /\ outputIndex <= Len(Expansion)
  /\ \A i \in 1 .. outputIndex : output[i] = Expansion[i]

(* All of Compress's output is expanded without an error, also when the    *)
(* last group is incomplete, or just complete; and with the right size it  *)
(* is expanded in full.  An error means an input that was cut short or a   *)
(* size that it cannot fill.                                               *)
WholeExpanded ==
  phase \in {"ok", "error"} /\ input = stream /\ outputSize \in 0 .. Len(Expansion) =>
    /\ phase = "ok"
    /\ outputSize = Len(Expansion) => output = Expansion
=============================================================================
