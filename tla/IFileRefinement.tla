-------------------------- MODULE IFileRefinement ---------------------------
(***************************************************************************)
(* IFile implements ByteStream, for every value of the constants: what its *)
(* buffer, its loops and its system calls deliver is what a source with a  *)
(* position delivers.  With it, what the byte calls say about the end.     *)
(***************************************************************************)
EXTENDS IFileProofs

Exact  == {<<"read_bytes", "exact">>, <<"read_bytes_to_end", "exact">>}
AtMost == {<<"read_bytes_at_most", "at_most">>}

(* What asks for the end first, and what goes on in a loop.                *)
AskFirst == Exact \cup AtMost \cup
  {<<"at_eof", "none">>, <<"peek_byte", "none">>, <<"read_byte", "none">>}

GoOn == Exact \cup AtMost \cup
  {<<"read_bytes_all", "drain">>, <<"read_bytes_to_end", "drain">>, <<"seek", "skip">>}

(* Where a call is, or where it goes on when the buffer has been filled.   *)
Place == IF pc = "fill" THEN ret ELSE pc

Kind == <<call.op, call.loop>>

(* Which calls can be where, and how much each has delivered: for all of   *)
(* the steps, also of an object that is out of step.                       *)
Shape ==
  /\ Place = "body" => Kind \in AskFirst /\ out = <<>>
  /\ Place = "more" => Kind \in GoOn
  /\ Place \in {"body", "more"} /\ call.loop \in {"exact", "at_most"} =>
       Len(out) + left = call.arg
  /\ Place = "more" /\ call.loop = "skip" => out = <<>>
  /\ pc = "bulk" => Kind \in Exact /\ Len(out) + left = call.arg + got
  /\ pc = "whole" =>
       Kind = <<"read_bytes_all", "drain">> /\ Len(out) = got /\ call.start = 0
  /\ pc = "refill" => Kind = <<"seek", "skip">>
  /\ pc \in {"idle", "refill"} => out = <<>>
  /\ pc = "fill" => buffer_pos = buffer_size

(* What a running call has delivered is the file from its start on, and    *)
(* the position is behind it, or will be when the call has returned.       *)
Delivered ==
  ~torn =>
    /\ pc \in {"body", "more"} \cup Sites => out = Run(fd, call.start, Len(out))
    /\ pc = "body" => tell = call.start
    /\ pc = "more" /\ call.loop # "skip" => tell = call.start + Len(out)
    /\ pc = "fill" /\ call.loop # "skip" => file_pos_of_buffer_start = call.start + Len(out)
    /\ pc = "bulk" => off = call.start + Len(out) /\ tell = call.start
    /\ pc = "whole" => tell = 0
    /\ pc \in {"fill", "more"} /\ call.loop = "skip" => call.start <= file_pos_of_buffer_start

(* read_bytes() runs from the beginning of the file.                       *)
FromTheStart == pc # "ret" /\ call.op = "read_bytes_all" => call.start = 0

RInv == IInv /\ CInv /\ Named /\ Shape /\ Delivered /\ FromTheStart

-----------------------------------------------------------------------------
(* Runs of bytes.                                                          *)

(* A call that has delivered the file from s to tell() delivers n more.    *)
LEMMA DeliversMore ==
  ASSUME RInv, ~torn, pc \in Resting, NEW s \in Nat, NEW n \in Nat, buffer_pos + n <= buffer_size,
         out = Run(fd, s, Len(out)), tell = s + Len(out)
  PROVE  out \o Copied(n) = Run(fd, s, Len(out \o Copied(n)))
<1>1. Holds(buffer_size)
  BY Resting1 DEF RInv
<1>2. Copied(n) = Run(fd, s + Len(out), n)
  BY <1>1, CopiedIsRun DEF RInv
<1>3. Len(out) \in Nat /\ Len(out \o Copied(n)) = Len(out) + n
  BY CopiedLen DEF RInv
<1>4. Run(fd, s, Len(out)) \o Run(fd, s + Len(out), n) = Run(fd, s, Len(out) + n)
  <2>1. Meets(s, Len(out), s + Len(out), n, Len(out) + n)
    BY <1>3 DEF Meets
  <2>2. Joined(fd, s, Len(out), s + Len(out), n, Len(out) + n)
    BY Zenon, <2>1, RunsJoin
  <2>. QED
    BY Zenon, <2>2 DEF Joined
<1>. QED
  BY <1>2, <1>3, <1>4

LEMMA Argument == RInv => call.arg \in Int
BY DEF RInv, Named

-----------------------------------------------------------------------------
(* Shape and Delivered, step by step.                                      *)

(* Nothing is asked of a call that has returned, or ended the program.     *)
LEMMA Stops ==
  ASSUME pc' \in {"ret", "aborted"}
  PROVE  Shape' /\ Delivered'
BY DEF Shape, Delivered, Place, Sites

(* What has_no_data_left() finds when it is entered still holds where the  *)
(* call goes on.                                                           *)
LEMMA GoesOn ==
  ASSUME IInv, NEW next \in {"body", "more"}, NEW bp, NEW at_end,
         HasNoDataLeft(next, bp, at_end), UNCHANGED <<fd, lost>>,
         next = "body" => Kind' \in AskFirst /\ out' = <<>>,
         next = "more" => Kind' \in GoOn /\ (call'.loop = "skip" => out' = <<>>),
         call'.loop \in {"exact", "at_most"} => Len(out') + left' = call'.arg,
         ~torn /\ bp = buffer_size =>
           /\ out' = Run(fd, call'.start, Len(out'))
           /\ call'.loop # "skip" =>
                file_pos_of_buffer_start + buffer_size = call'.start + Len(out')
           /\ call'.loop = "skip" => call'.start <= file_pos_of_buffer_start + buffer_size,
         call'.start \in Nat, Len(out') \in Nat
  PROVE  Shape' /\ Delivered'
<1>1. torn' = torn /\ file_pos_of_buffer_start \in Nat /\ buffer_size \in Nat
  BY Numbers DEF torn
<1>2. CASE pc' \in {"ret", "aborted"}
  BY <1>2, Stops
<1>3. CASE pc' \notin {"ret", "aborted"}
  <2>1. /\ bp = buffer_size /\ Place' = next
        /\ file_pos_of_buffer_start' = file_pos_of_buffer_start + buffer_size
        /\ \/ pc' = next /\ buffer_pos' = 0
           \/ pc' = "fill" /\ buffer_pos' = buffer_size'
    BY <1>3, Enters DEF Place
  <2>2. Shape'
    BY <2>1 DEF Shape
  <2>3. next = "body" => call'.loop # "skip" /\ Len(out') = 0
    BY DEF AskFirst, Exact, AtMost, Kind
  <2>4. pc' = next => tell' = file_pos_of_buffer_start + buffer_size
    BY <1>1, <2>1 DEF tell
  <2>5. Delivered'
    BY <1>1, <2>1, <2>3, <2>4 DEF Delivered, Sites
  <2>. QED
    BY <2>2, <2>5
<1>. QED
  BY <1>2, <1>3

(* fh.read() refuses a closed file.                                        *)
LEMMA Refused ==
  ASSUME RInv, pc \in Resting,
         NEW next \in {"body", "more"}, NEW bp, NEW at_end, HasNoDataLeft(next, bp, at_end),
         pc' = "ret"
  PROVE  /\ outcome' = "AttemptToReadAClosedFile"
         /\ ~torn => tell' = file_pos_of_buffer_start + buffer_size /\ bp = buffer_size
<1>1. /\ bp = buffer_size /\ fd = NoFile /\ outcome' = "AttemptToReadAClosedFile"
      /\ file_pos_of_buffer_start' = file_pos_of_buffer_start + buffer_size
      /\ buffer_pos' = buffer_size
  BY DEF HasNoDataLeft, FhRead, StartRead, Finish
<1>2. ~torn => buffer_size = 0
  BY <1>1, Resting1 DEF RInv
<1>. QED
  BY <1>1, <1>2, Numbers DEF RInv, tell

LEMMA EmptyOut == ASSUME RInv, out = <<>> PROVE Len(out) = 0 /\ out = Run(fd, tell, 0)
BY EmptyRun

(* A call that asks for the end first.                                     *)
LEMMA AsksFirst ==
  ASSUME RInv, pc = "idle", AtEof("body"), UNCHANGED <<fd, lost, out>>,
         Kind' \in AskFirst, call'.start = tell,
         call'.loop \in {"exact", "at_most"} => left' = call'.arg /\ left' \in Nat
  PROVE  /\ Shape' /\ Delivered'
         /\ pc' = "ret" => outcome' = "AttemptToReadAClosedFile" /\ (~torn => tell' = tell)
<1>1. out = <<>> /\ Len(out) = 0 /\ out = Run(fd, tell, 0)
  BY EmptyOut DEF RInv, Shape
<1>2. tell \in Nat /\ buffer_pos \in Nat /\ buffer_size \in Nat
  BY Numbers DEF RInv
<1>3. CASE buffer_pos < buffer_size
  <2>1. pc' = "body" /\ UNCHANGED <<file_pos_of_buffer_start, buffer_pos>>
    BY <1>2, <1>3 DEF AtEof, window
  <2>2. tell' = tell
    BY <2>1 DEF tell
  <2>3. Shape'
    BY <1>1, <2>1 DEF Shape, Place
  <2>4. Delivered'
    BY <1>1, <1>2, <2>1, <2>2 DEF Delivered, Sites
  <2>. QED
    BY <2>1, <2>3, <2>4
<1>4. CASE ~(buffer_pos < buffer_size)
  <2>1. HasNoDataLeft("body", buffer_pos, is_eof_reached)
    BY <1>4 DEF AtEof
  <2>2. buffer_pos = buffer_size => file_pos_of_buffer_start + buffer_size = tell
    BY DEF tell
  <2>3. call'.loop # "skip"
    BY DEF AskFirst, Exact, AtMost, Kind
  <2>4. pc' = "ret" => outcome' = "AttemptToReadAClosedFile" /\ (~torn => tell' = tell)
    BY <2>1, <2>2, Refused DEF Resting
  <2>. QED
    BY <1>1, <1>2, <2>1, <2>2, <2>3, <2>4, GoesOn DEF RInv
<1>. QED
  BY <1>3, <1>4

(* Appending the whole buffer, at the beginning or in the loop.            *)
LEMMA Drains ==
  ASSUME RInv, DrainThenRefill, UNCHANGED <<fd, lost>>, pc \in Resting, buffer_pos <= buffer_size,
         Kind' \in GoOn, call'.loop = "drain", call'.start \in Nat,
         ~torn => out = Run(fd, call'.start, Len(out)) /\ tell = call'.start + Len(out)
  PROVE  /\ Shape' /\ Delivered'
         /\ ~torn => /\ out' = Run(fd, call'.start, Len(out'))
                     /\ pc' = "ret" => tell' = call'.start + Len(out')
         /\ pc' = "ret" => outcome' = "AttemptToReadAClosedFile"
<1>1. /\ out' = out \o Copied(Available) /\ HasNoDataLeft("more", buffer_size, is_eof_reached)
  BY DEF DrainThenRefill
<1>2. /\ buffer_pos \in Nat /\ buffer_size \in Nat /\ file_pos_of_buffer_start \in Nat
      /\ Len(out) \in Nat
  BY Numbers DEF RInv
<1>3. Available \in Nat /\ buffer_pos + Available <= buffer_size
  BY <1>2 DEF Available
<1>4. Len(out') = Len(out) + Available
  BY <1>1, <1>3, CopiedLen DEF RInv
<1>5. ~torn => /\ out' = Run(fd, call'.start, Len(out'))
               /\ file_pos_of_buffer_start + buffer_size = call'.start + Len(out')
  <2>1. ~torn => out' = Run(fd, call'.start, Len(out'))
    BY <1>1, <1>3, DeliversMore
  <2>2. ~torn => file_pos_of_buffer_start + buffer_size = call'.start + Len(out')
    BY <1>2, <1>4 DEF tell, Available
  <2>. QED
    BY <2>1, <2>2
<1>6. Len(out') \in Nat
  BY <1>2, <1>3, <1>4
<1>7. pc' = "ret" => /\ outcome' = "AttemptToReadAClosedFile"
                     /\ ~torn => tell' = call'.start + Len(out')
  BY <1>1, <1>5, Refused
<1>. QED
  BY <1>1, <1>5, <1>6, <1>7, GoesOn DEF RInv

(* Copying what is asked for or what there is, in the loop.                *)
LEMMA Copies ==
  ASSUME RInv, CopyThenRefill, UNCHANGED <<fd, lost, call>>, pc \in {"body", "more"},
         Kind \in Exact \cup AtMost
  PROVE  /\ Shape' /\ Delivered'
         /\ ~torn => /\ out' = Run(fd, call.start, Len(out'))
                     /\ pc' = "ret" => tell' = call.start + Len(out')
         /\ pc' = "ret" => \/ outcome' = "ok" /\ Len(out') = call.arg
                           \/ outcome' = "AttemptToReadAClosedFile"
<1> DEFINE n == IF Available < left THEN Available ELSE left
<1>1. /\ out' = out \o Copied(n) /\ left' = left - n
      /\ \/ /\ left = n /\ buffer_pos' = buffer_pos + n /\ pc' = "ret" /\ outcome' = "ok"
            /\ UNCHANGED <<file_pos_of_buffer_start, buffer_size>>
         \/ left # n /\ HasNoDataLeft("more", buffer_pos + n, is_eof_reached)
  BY DEF CopyThenRefill, Finish, window
<1>2. /\ buffer_pos \in Nat /\ buffer_size \in Nat /\ file_pos_of_buffer_start \in Nat
      /\ Len(out) \in Nat /\ left \in Nat /\ call.start \in Nat /\ buffer_pos <= buffer_size
  BY Numbers DEF RInv, IInv, Control
<1>3. /\ n \in Nat /\ buffer_pos + n <= buffer_size /\ n <= left
      /\ left # n => buffer_pos + n = buffer_size
  BY <1>2 DEF Available
<1>4. pc \in Resting /\ pc = Place /\ call.loop \in {"exact", "at_most"} /\ call.loop # "skip"
      /\ Kind \in GoOn
  BY DEF Resting, Place, Kind, Exact, AtMost, GoOn
<1>5. Len(out) + left = call.arg
  BY <1>4 DEF RInv, Shape
<1>6. ~torn => out = Run(fd, call.start, Len(out)) /\ tell = call.start + Len(out)
  <2>1. pc = "body" => Len(out) = 0
    BY <1>4 DEF RInv, Shape
  <2>. QED
    BY <1>2, <1>4, <2>1, Numbers DEF RInv, Delivered
<1> HIDE DEF n
<1>7. Len(out') = Len(out) + n
  BY <1>1, <1>3, CopiedLen DEF RInv
<1>8. ~torn => out' = Run(fd, call.start, Len(out'))
  BY <1>1, <1>2, <1>3, <1>4, <1>6, DeliversMore
<1>9. CASE left = n
  <2>1. buffer_pos' = buffer_pos + n /\ pc' = "ret" /\ outcome' = "ok"
        /\ UNCHANGED <<file_pos_of_buffer_start, buffer_size>>
    BY <1>1, <1>9
  <2>2. ~torn => tell' = call.start + Len(out')
    BY <1>2, <1>3, <1>6, <1>7, <2>1 DEF tell
  <2>3. Len(out') = call.arg
    BY <1>5, <1>7, <1>9
  <2>. QED
    BY <1>8, <2>1, <2>2, <2>3, Stops
<1>10. CASE left # n
  <2>1. HasNoDataLeft("more", buffer_pos + n, is_eof_reached) /\ buffer_pos + n = buffer_size
    BY <1>1, <1>3, <1>10
  <2>2. ~torn => file_pos_of_buffer_start + buffer_size = call.start + Len(out')
    BY <1>2, <1>3, <1>6, <1>7, <2>1 DEF tell
  <2>3. Len(out') + left' = call'.arg /\ Len(out') \in Nat
    BY <1>1, <1>2, <1>3, <1>5, <1>7
  <2>4. pc' = "ret" => outcome' = "AttemptToReadAClosedFile"
                       /\ (~torn => tell' = call.start + Len(out'))
    BY <1>4, <2>1, <2>2, Refused
  <2>5. Kind' = Kind /\ call' = call
    BY DEF Kind
  <2>6. Shape' /\ Delivered'
    BY <1>2, <1>4, <1>8, <2>1, <2>2, <2>3, <2>5, GoesOn DEF RInv
  <2>. QED
    BY <1>8, <2>4, <2>6
<1>. QED
  BY <1>9, <1>10

(* A call begins with nothing delivered.                                   *)
LEMMA AtIdle ==
  ASSUME RInv, pc = "idle"
  PROVE  /\ out = <<>> /\ Len(out) = 0 /\ pc \in Resting /\ tell \in Nat
         /\ \A s : out = Run(fd, s, Len(out))
<1>1. out = <<>> /\ Len(out) = 0 /\ pc \in Resting
  BY DEF RInv, Shape, Resting
<1>. QED
  BY <1>1, EmptyRun, Numbers DEF RInv

LEMMA CallsAtEofShape ==
  ASSUME RInv, AtEofCall \/ PeekByte \/ ReadByte
                 \/ \E n \in Counts : ReadBytes(n) \/ ReadBytesAtMost(n)
  PROVE  /\ Shape' /\ Delivered' /\ pc = "idle" /\ UNCHANGED <<fd, lost, out>> /\ call'.start = tell
         /\ call'.op \notin {"seek", "open", "close"}
         /\ pc' = "ret" => outcome' = "AttemptToReadAClosedFile" /\ (~torn => tell' = tell)
<1>1. /\ pc = "idle" /\ AtEof("body") /\ UNCHANGED <<fd, lost, out>>
      /\ Kind' \in AskFirst /\ call'.start = tell
      /\ call'.loop \in {"exact", "at_most"} => left' = call'.arg /\ left' \in Nat
      /\ call'.op \notin {"seek", "open", "close"}
  BY IFileAssumption DEF AtEofCall, PeekByte, ReadByte, ReadBytes, ReadBytesAtMost, CallAtEof, Begin,
     handle, Kind, AskFirst, Exact, AtMost
<1>. QED
  BY <1>1, AsksFirst

LEMMA DrainFromIdle ==
  ASSUME RInv, pc = "idle", DrainThenRefill, UNCHANGED <<fd, lost>>, buffer_pos <= buffer_size,
         Kind' \in GoOn, call'.loop = "drain", call'.start = tell
  PROVE  /\ Shape' /\ Delivered'
         /\ ~torn => /\ out' = Run(fd, tell, Len(out'))
                     /\ pc' = "ret" => tell' = tell + Len(out')
         /\ pc' = "ret" => outcome' = "AttemptToReadAClosedFile"
BY AtIdle, Drains

LEMMA ReadWholeShape ==
  ASSUME RInv, pc = "idle", NEW s, ReadWhole(s), AtBeginning, UNCHANGED <<fd, lost>>,
         Kind' = <<"read_bytes_all", "drain">>, call'.start = tell
  PROVE  /\ Shape' /\ Delivered' /\ out' = <<>> /\ tell' = tell
         /\ pc' = "ret" => outcome' = "AttemptToReadAClosedFile"
<1>1. /\ UNCHANGED <<file_pos_of_buffer_start, buffer_size, buffer_pos, out>>
      /\ \/ got' = 0 /\ pc' = "whole"
         \/ pc' = "ret" /\ outcome' = "AttemptToReadAClosedFile"
  BY DEF ReadWhole, FhRead, StartRead, Finish, window
<1>2. tell' = tell /\ tell = 0 /\ out' = <<>> /\ Len(out') = 0 /\ out' = Run(fd', call'.start, Len(out'))
  BY <1>1, AtIdle DEF tell, AtBeginning
<1>3. CASE pc' = "ret"
  BY <1>1, <1>2, <1>3, Stops
<1>4. CASE got' = 0 /\ pc' = "whole"
  <2>1. Shape'
    BY <1>2, <1>4 DEF Shape, Place
  <2>2. Delivered'
    BY <1>2, <1>4 DEF Delivered
  <2>. QED
    BY <1>1, <1>2, <1>4, <2>1, <2>2
<1>. QED
  BY <1>1, <1>3, <1>4

(* read_bytes(): where it returns at once, it has thrown.                  *)
LEMMA ReadBytesAllShape ==
  ASSUME RInv, ReadBytesAll
  PROVE  /\ Shape' /\ Delivered' /\ pc = "idle" /\ UNCHANGED <<fd, lost>> /\ call'.start = tell
         /\ call'.op \notin {"seek", "open", "close"}
         /\ pc' = "ret" =>
              /\ outcome' \notin {"ok", "true", "false"}
              /\ ~torn => out' = Run(fd, tell, Len(out')) /\ tell' \in {tell, tell + Len(out')}
<1>1. /\ pc = "idle" /\ UNCHANGED <<fd, lost>> /\ call'.start = tell
      /\ Kind' = <<"read_bytes_all", "drain">> /\ call'.op = "read_bytes_all" /\ call'.loop = "drain"
      /\ \/ \E e : Throw(e) /\ e \notin {"ok", "true", "false"}
         \/ AtBeginning /\ DrainThenRefill
         \/ AtBeginning /\ \E s : ReadWhole(s)
  BY DEF ReadBytesAll, GotFileSize, Begin, handle, Kind, FileSizeError
<1>2. CASE \E e : Throw(e) /\ e \notin {"ok", "true", "false"}
  BY <1>1, <1>2, AtIdle, Stops DEF Throw, Finish, window, tell
<1>3. CASE AtBeginning /\ DrainThenRefill
  BY <1>1, <1>3, DrainFromIdle DEF AtBeginning, GoOn
<1>4. CASE AtBeginning /\ \E s : ReadWhole(s)
  BY <1>1, <1>4, ReadWholeShape, EmptyRun
<1>. QED
  BY <1>1, <1>2, <1>3, <1>4

LEMMA SizesAsked ==
  ASSUME IInv, NEW s \in FileSizeResults, s = NotRegular
  PROVE  buffer_pos <= buffer_size
<1>1. /\ buffer_pos \in Nat /\ buffer_size \in Nat /\ (buffer_pos > buffer_size => file_size \in Nat)
  BY Numbers DEF IInv, Control
<1>. QED
  BY <1>1 DEF FileSizeResults, NotRegular, Unknown

LEMMA ReadBytesToEndShape ==
  ASSUME RInv, ReadBytesToEnd
  PROVE  /\ Shape' /\ Delivered' /\ pc = "idle" /\ UNCHANGED <<fd, lost>> /\ call'.start = tell
         /\ call'.op \notin {"seek", "open", "close"}
         /\ pc' = "ret" =>
              /\ outcome' \notin {"ok", "true", "false"}
              /\ ~torn => out' = Run(fd, tell, Len(out')) /\ tell' \in {tell, tell + Len(out')}
<1>1. PICK s \in FileSizeResults :
        /\ UNCHANGED <<fd, lost>> /\ pc = "idle" /\ call'.op = "read_bytes_to_end"
        /\ call'.start = tell
        /\ \/ \E e : Throw(e) /\ e \notin {"ok", "true", "false"}
           \/ s = NotRegular /\ call'.loop = "drain" /\ DrainThenRefill
           \/ /\ call'.loop = "exact" /\ call'.arg = s - tell /\ s >= tell
              /\ left' = s - tell /\ AtEof("body") /\ UNCHANGED out
  BY DEF ReadBytesToEnd, GotFileSize, Begin, FileSizeError
<1>2. CASE \E e : Throw(e) /\ e \notin {"ok", "true", "false"}
  BY <1>1, <1>2, AtIdle, Stops DEF Throw, Finish, window, tell
<1>3. CASE s = NotRegular /\ call'.loop = "drain" /\ DrainThenRefill
  <2>1. buffer_pos <= buffer_size /\ Kind' \in GoOn
    BY <1>1, <1>3, SizesAsked DEF RInv, Kind, GoOn
  <2>. QED
    BY <1>1, <1>3, <2>1, DrainFromIdle
<1>4. CASE /\ call'.loop = "exact" /\ call'.arg = s - tell /\ s >= tell
           /\ left' = s - tell /\ AtEof("body") /\ UNCHANGED out
  <2>1. s \in Int /\ tell \in Nat
    BY Numbers DEF RInv, IInv, Typed, HandleOK, WorldOK, FileSizeResults, Unknown, NotRegular
  <2>2. Kind' \in AskFirst /\ left' = call'.arg /\ left' \in Nat
    BY <1>1, <1>4, <2>1 DEF Kind, AskFirst, Exact
  <2>3. /\ Shape' /\ Delivered'
        /\ pc' = "ret" => outcome' = "AttemptToReadAClosedFile" /\ (~torn => tell' = tell)
    BY <1>1, <1>4, <2>2, AsksFirst
  <2>. QED
    BY <1>1, <1>4, <2>3, AtIdle
<1>. QED
  BY <1>1, <1>2, <1>3, <1>4

-----------------------------------------------------------------------------
(* A step of IFile is a step of ByteStream, or none.                       *)

Maps == Abstract!Called \/ UNCHANGED Abstract!vars

(* What throws an exception.                                               *)
Thrown(o) == o \notin {"ok", "true", "false"}

LEMMA AnAnswer ==
  ASSUME NEW a, NEW b, NEW c, NEW d
  PROVE  [op |-> a, arg |-> b, outcome |-> c, bytes |-> d] # <<>>
OBVIOUS

(* The call goes on.                                                       *)
LEMMA GoingOnMaps ==
  ASSUME pc # "ret", pc' \notin {"ret", "idle"}, UNCHANGED <<fd, lost>>,
         pc = "idle" => call'.start = tell, pc # "idle" => UNCHANGED call
  PROVE  Maps
BY DEF Maps, Abstract!vars, Position, Answered, torn

(* The call returns.                                                       *)
LEMMA Returning ==
  ASSUME pc # "ret", pc' = "ret"
  PROVE  /\ Answered = Abstract!NoAnswer /\ Answered' # Abstract!NoAnswer
         /\ Answered'.op = call'.op /\ Answered'.arg = call'.arg
         /\ Answered'.outcome = outcome' /\ Answered'.bytes = out'
         /\ Position' = tell'
BY AnAnswer DEF Answered, Abstract!NoAnswer, Position

(* While the object is out of step, anything may be answered.              *)
LEMMA WandersMap ==
  ASSUME pc # "ret", pc' = "ret", UNCHANGED fd, torn, torn',
         call'.op \notin {"open", "close"}
  PROVE  Maps
BY Returning DEF Maps, Abstract!Called, Abstract!Wanders

LEMMA FailsMap ==
  ASSUME pc # "ret", pc' = "ret", UNCHANGED fd, torn => torn',
         call'.op \notin {"open", "close"}, Thrown(outcome'),
         ~torn' => /\ out' = Run(fd, Position, Len(out'))
                   /\ IF call'.op = "seek" THEN tell' >= Position
                      ELSE tell' \in {Position, Position + Len(out')}
  PROVE  Maps
<1>1. CASE torn
  BY <1>1, WandersMap
<1>2. CASE ~torn /\ torn'
  BY <1>2, Returning DEF Maps, Thrown, Abstract!Called, Abstract!Loses
<1>3. CASE ~torn /\ ~torn'
  <2>1. Abstract!Fails(Answered')
    BY <1>3, Returning DEF Thrown, Abstract!Fails, Abstract!Bytes, Abstract!Keeps, Run
  <2>. QED
    BY <1>3, <2>1, Returning DEF Maps, Abstract!Called
<1>. QED
  BY <1>1, <1>2, <1>3

LEMMA ReadsMap ==
  ASSUME pc # "ret", pc' = "ret", UNCHANGED fd, torn <=> torn',
         call'.op \in {"read_byte", "read_bytes", "read_bytes_at_most",
                       "read_bytes_all", "read_bytes_to_end"},
         outcome' = "ok",
         call'.op = "read_byte" => Len(out') = 1,
         call'.op = "read_bytes" => Len(out') = call'.arg,
         call'.op = "read_bytes_at_most" => Len(out') <= call'.arg,
         ~torn => /\ call'.op = "read_bytes_all" => Position = 0
                  /\ out' = Run(fd, Position, Len(out'))
                  /\ tell' = Position + Len(out')
  PROVE  Maps
<1>1. CASE torn
  BY <1>1, WandersMap
<1>2. CASE ~torn
  <2>1. Abstract!Reads(Answered')
    BY <1>2, Returning DEF Abstract!Reads, Abstract!Bytes, Abstract!Keeps, Run
  <2>. QED
    BY <1>2, <2>1, Returning DEF Maps, Abstract!Called
<1>. QED
  BY <1>1, <1>2

LEMMA TellsMap ==
  ASSUME pc # "ret", pc' = "ret", UNCHANGED fd, torn <=> torn',
         call'.op \in {"at_eof", "get_file_size", "set_buffer_size"},
         out' = <<>>, ~torn => tell' = Position
  PROVE  Maps
<1>1. CASE torn
  BY <1>1, WandersMap
<1>2. CASE ~torn
  <2>1. Abstract!Tells(Answered')
    BY <1>2, Returning DEF Abstract!Tells, Abstract!Keeps
  <2>. QED
    BY <1>2, <2>1, Returning DEF Maps, Abstract!Called
<1>. QED
  BY <1>1, <1>2

LEMMA SeeksMap ==
  ASSUME pc # "ret", pc' = "ret", UNCHANGED fd, torn' => torn,
         call'.op = "seek", outcome' = "ok", out' = <<>>, tell' = call'.arg
  PROVE  Maps
<1>1. Abstract!Seeks(Answered')
  BY Returning DEF Abstract!Seeks
<1>. QED
  BY <1>1, Returning DEF Maps, Abstract!Called

-----------------------------------------------------------------------------
(* Reading.                                                                *)

LEMMA StillRInv ==
  ASSUME RInv, UNCHANGED <<fd, off, got, file_pos_of_buffer_start, buffer_size, buffer_pos,
                           pc, ret, call, left, out, lost>>
  PROVE  Shape' /\ Delivered'
<1>1. Place' = Place /\ Kind' = Kind /\ tell' = tell /\ torn' = torn
  BY DEF Place, Kind, tell, torn
<1>2. Shape'
  BY <1>1 DEF RInv, Shape
<1>3. Delivered'
  BY <1>1 DEF RInv, Delivered
<1>. QED
  BY <1>2, <1>3

LEMMA ReadIntoBufferMaps == ASSUME RInv, ReadIntoBuffer PROVE Shape' /\ Delivered' /\ Maps
<1>1. /\ UNCHANGED <<fd, file_pos_of_buffer_start, buffer_size, buffer_pos,
                     ret, call, left, out, lost>>
      /\ pc \in {"fill", "refill"} /\ pc' \in {pc, "overrun"}
  BY DEF ReadIntoBuffer, SysRead, window
<1>2. Kind' = Kind /\ tell' = tell /\ torn' = torn
  BY <1>1 DEF Kind, tell, torn
<1>3. Shape'
  <2>1. CASE pc' = pc
    BY <1>1, <1>2, <2>1 DEF RInv, Shape, Place
  <2>2. CASE pc' = "overrun"
    BY <2>2 DEF Shape, Place
  <2>. QED
    BY <1>1, <2>1, <2>2
<1>4. Delivered'
  <2>1. CASE pc' = pc
    BY <1>1, <1>2, <2>1 DEF RInv, Delivered
  <2>2. CASE pc' = "overrun"
    BY <2>2 DEF Delivered, Sites
  <2>. QED
    BY <1>1, <2>1, <2>2
<1>. QED
  BY <1>1, <1>3, <1>4, GoingOnMaps

LEMMA ReadIntoCallerMaps == ASSUME RInv, ReadIntoCaller PROVE Shape' /\ Delivered' /\ Maps
<1>1. PICK r \in SysReadResults :
        /\ UNCHANGED <<fd, file_pos_of_buffer_start, buffer_size, buffer_pos,
                       pc, ret, call, left, lost>>
        /\ pc \in {"bulk", "whole"}
        /\ off' = off + r /\ got' = got + r /\ out' = out \o Run(fd, off, r)
  BY DEF ReadIntoCaller, SysRead, window, Run
<1>2. /\ r \in Nat /\ got \in Nat /\ off \in Nat /\ left \in Nat /\ call.start \in Nat
      /\ Len(out) \in Nat /\ call.arg \in Int
  BY <1>1, SysReadCount, Argument, Numbers DEF RInv, Sites, IInv, Typed, TransferOK
<1>3. Len(out') = Len(out) + r
  <2>1. Run(fd, off, r) \in Seq({fd} \X Nat) /\ Len(Run(fd, off, r)) = r
    BY <1>2, RunType
  <2>2. out \in Seq(Byte)
    BY Numbers DEF RInv
  <2>. QED
    BY <1>1, <2>1, <2>2, ConcatProperties
<1>4. Place' = Place /\ Kind' = Kind /\ tell' = tell /\ torn' = torn
  BY <1>1 DEF Place, Kind, tell, torn
<1>5. Shape'
  <2>1. /\ pc = "bulk" => Kind \in Exact /\ Len(out) + left = call.arg + got
        /\ pc = "whole" => Kind = <<"read_bytes_all", "drain">> /\ Len(out) = got /\ call.start = 0
    BY DEF RInv, Shape
  <2>2. /\ pc' \in {"bulk", "whole"} /\ Place' \in {"bulk", "whole"}
    BY <1>1 DEF Place
  <2>3. /\ pc' = "bulk" => Kind' \in Exact /\ Len(out') + left' = call'.arg + got'
        /\ pc' = "whole" => Kind' = <<"read_bytes_all", "drain">> /\ Len(out') = got' /\ call'.start = 0
    <3>1. pc' = pc /\ left' = left /\ call' = call /\ got' = got + r
      BY <1>1
    <3>. QED
      BY <1>2, <1>3, <1>4, <2>1, <3>1
  <2>. QED
    BY <2>2, <2>3 DEF Shape
<1>6. ~torn => off = call.start + Len(out)
  BY <1>1, <1>2 DEF RInv, Shape, Delivered, CInv, Coherent
<1>7. ~torn => out' = Run(fd, call.start, Len(out'))
  <2>1. Run(fd, call.start, Len(out)) \o Run(fd, call.start + Len(out), r)
          = Run(fd, call.start, Len(out) + r)
    <3>1. Meets(call.start, Len(out), call.start + Len(out), r, Len(out) + r)
      BY <1>2 DEF Meets
    <3>2. Joined(fd, call.start, Len(out), call.start + Len(out), r, Len(out) + r)
      BY Zenon, <3>1, RunsJoin
    <3>. QED
      BY Zenon, <3>2 DEF Joined
  <2>2. ~torn => out = Run(fd, call.start, Len(out))
    BY <1>1 DEF RInv, Delivered, Sites
  <2>. QED
    BY <1>1, <1>3, <1>6, <2>1, <2>2
<1>8. Delivered'
  <2>1. ~torn => /\ pc = "bulk" => tell' = call'.start /\ off' = call'.start + Len(out')
                 /\ pc = "whole" => tell' = 0
    <3>1. pc' = pc /\ call' = call /\ off' = off + r
      BY <1>1
    <3>2. ~torn => (pc = "bulk" => tell = call.start) /\ (pc = "whole" => tell = 0)
      BY DEF RInv, Delivered
    <3>3. ~torn => off' = call'.start + Len(out')
      BY <1>2, <1>3, <1>6, <3>1
    <3>. QED
      BY <1>4, <3>1, <3>2, <3>3
  <2>. QED
    BY <1>1, <1>4, <1>7, <2>1 DEF Delivered
<1>. QED
  BY <1>1, <1>5, <1>8, GoingOnMaps

(* The place where a call waits for read(2).                               *)
LEMMA ReadFailsMaps == ASSUME RInv, ReadFails PROVE Shape' /\ Delivered' /\ Maps
<1>1. /\ pc \in Sites /\ pc' = "ret" /\ outcome' = "IOError"
      /\ UNCHANGED <<fd, file_pos_of_buffer_start, buffer_size, buffer_pos, call, out>>
      /\ Lose(got > 0 \/ pc = "refill" \/ (pc = "fill" /\ buffer_size > 0), "IOError")
  BY DEF ReadFails, Finish, handle, window
<1>2. tell' = tell /\ (torn => torn') /\ Position = call.start
      /\ (~torn' => got <= 0 /\ pc # "refill" /\ (pc = "fill" => ~(buffer_size > 0)))
  <2>1. torn => torn'
    BY <1>1 DEF Lose, torn
  <2>2. tell' = tell /\ Position = call.start
    BY <1>1 DEF tell, Position, Sites
  <2>3. ~torn' => ~(got > 0) /\ pc # "refill" /\ ~(pc = "fill" /\ buffer_size > 0)
    BY <1>1 DEF Lose, torn
  <2>. QED
    BY <2>1, <2>2, <2>3, Numbers DEF RInv
<1>3. call.op \notin {"open", "close"} /\ (call.op = "seek" <=> call.loop = "skip")
      /\ (pc = "bulk" \/ pc = "whole" => call.op # "seek")
  <2>1. pc = "fill" => Kind \in AskFirst \cup GoOn
    BY DEF RInv, Shape, Place, IInv, Typed, PlaceOK
  <2>. QED
    BY <1>1, <2>1 DEF RInv, Shape, Kind, Sites, AskFirst, GoOn, Exact, AtMost
<1>4. ~torn' => /\ out' = Run(fd, Position, Len(out'))
                /\ IF call'.op = "seek" THEN tell' >= Position
                   ELSE tell' \in {Position, Position + Len(out')}
  <2> SUFFICES ASSUME ~torn' PROVE /\ out' = Run(fd, Position, Len(out'))
                                   /\ IF call'.op = "seek" THEN tell' >= Position
                                      ELSE tell' \in {Position, Position + Len(out')}
    OBVIOUS
  <2>1. ~torn /\ pc # "refill" /\ (pc = "fill" => ~(buffer_size > 0))
    BY <1>2
  <2>2. out = Run(fd, call.start, Len(out))
    BY <1>1, <2>1 DEF RInv, Delivered
  <2>3. CASE pc = "fill"
    <3>1. tell = file_pos_of_buffer_start
      BY <2>1, <2>3, Numbers DEF RInv, Shape, tell
    <3>2. IF call.op = "seek" THEN tell >= call.start ELSE tell = call.start + Len(out)
      BY <1>3, <2>1, <2>3, <3>1 DEF RInv, Delivered
    <3>. QED
      BY <1>1, <1>2, <2>2, <3>2
  <2>4. CASE pc = "bulk"
    BY <1>1, <1>2, <1>3, <2>1, <2>2, <2>4 DEF RInv, Delivered
  <2>5. CASE pc = "whole"
    BY <1>1, <1>2, <1>3, <2>1, <2>2, <2>5 DEF RInv, Delivered, Shape
  <2>. QED
    BY <1>1, <2>1, <2>3, <2>4, <2>5 DEF Sites
<1>. QED
  BY <1>1, <1>2, <1>3, <1>4, FailsMap, Stops DEF Sites, Thrown

LEMMA FillReturnMaps == ASSUME RInv, FillReturn PROVE Shape' /\ Delivered' /\ Maps
<1>1. /\ pc = "fill" /\ pc' = ret /\ buffer_pos' = 0 /\ ret' = ret
      /\ UNCHANGED <<fd, file_pos_of_buffer_start, call, left, out, lost>>
  BY DEF FillReturn, handle
<1>2. ret \in {"body", "more"} /\ file_pos_of_buffer_start \in Nat /\ call.start \in Nat
  BY Numbers DEF RInv, IInv, Typed, PlaceOK
<1>3. Place = ret /\ Place' = ret /\ Kind' = Kind /\ tell' = file_pos_of_buffer_start /\ torn' = torn
  BY <1>1, <1>2 DEF Place, Kind, tell, torn
<1>4. Shape'
  BY <1>1, <1>2, <1>3 DEF RInv, Shape
<1>5. ret = "body" => call.loop # "skip" /\ Len(out) = 0
  BY <1>3 DEF RInv, Shape, AskFirst, Exact, AtMost, Kind
<1>6. Delivered'
  BY <1>1, <1>2, <1>3, <1>5 DEF RInv, Delivered, Sites
<1>. QED
  BY <1>1, <1>2, <1>4, <1>6, GoingOnMaps

LEMMA RefillReturnMaps == ASSUME RInv, RefillReturn PROVE Shape' /\ Delivered' /\ Maps
<1>1. /\ pc = "refill" /\ pc' = "ret" /\ outcome' = "ok" /\ lost' = "none"
      /\ buffer_pos' = call.arg - file_pos_of_buffer_start
      /\ UNCHANGED <<fd, file_pos_of_buffer_start, call, out>>
  BY DEF RefillReturn, handle, Finish
<1>2. ~torn' /\ tell' = call.arg
  <2>1. call.arg \in Int /\ file_pos_of_buffer_start \in Nat
    BY Argument, Numbers DEF RInv
  <2>2. file_pos_of_buffer_start + (call.arg - file_pos_of_buffer_start) = call.arg
    BY <2>1
  <2>. QED
    BY <1>1, <2>2 DEF torn, tell
<1>3. call.op = "seek" /\ out = <<>>
  BY <1>1 DEF RInv, Shape, Kind
<1>. QED
  BY <1>1, <1>2, <1>3, SeeksMap, Stops

LEMMA BulkReturnMaps == ASSUME RInv, BulkReturn PROVE Shape' /\ Delivered' /\ Maps
<1>1. /\ pc = "bulk" /\ pc' = "ret" /\ UNCHANGED <<fd, call, out>>
      /\ \/ /\ outcome' = "UnexpectedEOF" /\ Lose(got > 0, "UnexpectedEOF")
            /\ UNCHANGED <<file_pos_of_buffer_start, buffer_pos>>
         \/ /\ got >= left /\ outcome' = "ok" /\ UNCHANGED lost
            /\ file_pos_of_buffer_start' = AfterBulk /\ buffer_pos' = 0
  BY DEF BulkReturn, InLoop, handle, Throw, Finish, window
<1>2. /\ Kind \in Exact /\ Len(out) + left = call.arg + got /\ got + want = left
      /\ ~torn => /\ off = file_pos_of_buffer_start + buffer_size + got
                  /\ off = call.start + Len(out) /\ tell = call.start
                  /\ out = Run(fd, call.start, Len(out))
  BY <1>1 DEF RInv, Shape, Delivered, CInv, Coherent, Transfers, Sites
<1>3. call.op \in {"read_bytes", "read_bytes_to_end"}
  BY <1>2 DEF Kind, Exact
<1>4. Position = call.start
  BY <1>1 DEF Position
<1>5. CASE outcome' = "UnexpectedEOF" /\ Lose(got > 0, "UnexpectedEOF")
           /\ UNCHANGED <<file_pos_of_buffer_start, buffer_pos>>
  <2>1. (torn => torn') /\ (~torn' => ~torn) /\ tell' = tell
    BY <1>5 DEF Lose, torn, tell
  <2>. QED
    BY <1>1, <1>2, <1>3, <1>4, <1>5, <2>1, FailsMap, Stops DEF Thrown
<1>6. CASE /\ got >= left /\ outcome' = "ok" /\ UNCHANGED lost
           /\ file_pos_of_buffer_start' = AfterBulk /\ buffer_pos' = 0
  <2>1. /\ got = left /\ Len(out) = call.arg
    <3>1. /\ call.arg \in Int /\ got \in Nat /\ want \in Nat /\ left \in Nat
          /\ Len(out) \in Nat
      BY Argument, Numbers DEF RInv
    <3>2. got + want = left /\ got >= left
      BY <1>2, <1>6
    <3>3. got = left
      BY <3>1, <3>2
    <3>. QED
      BY <1>2, <3>1, <3>3
  <2>2. (torn <=> torn') /\ tell' = file_pos_of_buffer_start + buffer_size + left
    BY <1>6, Numbers DEF torn, tell, AfterBulk, RInv
  <2>3. ~torn => tell' = Position + Len(out)
    BY <1>2, <1>4, <2>1, <2>2, Numbers DEF RInv
  <2>. QED
    BY <1>1, <1>2, <1>3, <1>4, <1>6, <2>1, <2>2, <2>3, ReadsMap, Stops
<1>. QED
  BY <1>1, <1>5, <1>6

LEMMA WholeReturnMaps == ASSUME RInv, WholeReturn PROVE Shape' /\ Delivered' /\ Maps
<1>1. /\ pc = "whole" /\ pc' = "ret" /\ UNCHANGED <<fd, call, out, buffer_pos>>
      /\ \/ /\ outcome' = "OSReportedIncorrectFileSize"
            /\ Lose(got > 0, "OSReportedIncorrectFileSize")
            /\ UNCHANGED file_pos_of_buffer_start
         \/ /\ got = file_size /\ outcome' = "ok" /\ UNCHANGED lost
            /\ file_pos_of_buffer_start' = file_size
  BY DEF WholeReturn, InLoop, handle, Throw, Finish, window
<1>2. /\ call.op = "read_bytes_all" /\ Len(out) = got /\ call.start = 0 /\ buffer_pos = 0
      /\ ~torn => tell = 0 /\ out = Run(fd, call.start, Len(out))
  BY <1>1 DEF RInv, Shape, Delivered, CInv, Transfers, Sites, Kind
<1>3. Position = 0
  BY <1>1, <1>2 DEF Position
<1>4. CASE /\ outcome' = "OSReportedIncorrectFileSize"
           /\ Lose(got > 0, "OSReportedIncorrectFileSize")
           /\ UNCHANGED file_pos_of_buffer_start
  <2>1. (torn => torn') /\ (~torn' => ~torn) /\ tell' = tell
    BY <1>1, <1>4 DEF Lose, torn, tell
  <2>. QED
    BY <1>1, <1>2, <1>3, <1>4, <2>1, FailsMap, Stops DEF Thrown
<1>5. CASE /\ got = file_size /\ outcome' = "ok" /\ UNCHANGED lost
           /\ file_pos_of_buffer_start' = file_size
  <2>1. (torn <=> torn') /\ tell' = got
    BY <1>1, <1>2, <1>5, Numbers DEF torn, tell, RInv
  <2>2. ~torn => tell' = Position + Len(out)
    BY <1>2, <1>3, <2>1, Numbers DEF RInv
  <2>. QED
    BY <1>1, <1>2, <1>3, <1>5, <2>1, <2>2, ReadsMap, Stops
<1>. QED
  BY <1>1, <1>4, <1>5

-----------------------------------------------------------------------------
(* Where a call does its work.                                             *)

(* What has been delivered when the work begins, or goes on.               *)
LEMMA SoFar ==
  ASSUME RInv, pc \in {"body", "more"}
  PROVE  /\ Position = call.start /\ Place = pc /\ pc \in Resting
         /\ ~torn => out = Run(fd, call.start, Len(out))
         /\ ~torn /\ (pc = "body" \/ call.loop # "skip") => tell = call.start + Len(out)
<1>1. Position = call.start /\ Place = pc /\ pc \in Resting
  BY DEF Position, Place, Resting
<1>2. pc = "body" => Len(out) = 0
  BY <1>1 DEF RInv, Shape
<1>. QED
  BY <1>1, <1>2, Numbers DEF RInv, Delivered

(* A loop that throws, or returns what it has got.                         *)
LEMMA LoopEndsMaps ==
  ASSUME RInv, pc \in {"body", "more"}, NEW e, Throw(e), UNCHANGED <<fd, call, lost>>,
         call.op \notin {"open", "close"}
  PROVE  /\ Shape' /\ Delivered' /\ outcome' = e /\ out' = out /\ tell' = tell
         /\ pc' = "ret" /\ (torn <=> torn')
         /\ Thrown(e) /\ call.op # "seek" /\ call.loop # "skip" => Maps
<1>1. /\ pc' = "ret" /\ outcome' = e /\ UNCHANGED <<out, file_pos_of_buffer_start, buffer_pos>>
  BY DEF Throw, Finish, window
<1>2. tell' = tell /\ (torn <=> torn')
  BY <1>1 DEF tell, torn
<1>3. Thrown(e) /\ call.op # "seek" /\ call.loop # "skip" => Maps
  BY <1>1, <1>2, SoFar, FailsMap
<1>. QED
  BY <1>1, <1>2, <1>3, Stops

LEMMA AtEofReturnMaps == ASSUME RInv, AtEofReturn PROVE Shape' /\ Delivered' /\ Maps
<1>1. /\ pc = "body" /\ call.op = "at_eof" /\ UNCHANGED <<fd, call, lost>>
      /\ \E e : Throw(e)
  BY DEF AtEofReturn, InLoop, handle
<1>2. out = <<>>
  BY <1>1 DEF RInv, Shape, Place
<1>3. ~torn => tell = Position
  BY <1>1, SoFar DEF RInv, Delivered
<1>. QED
  BY <1>1, <1>2, <1>3, LoopEndsMaps, TellsMap

LEMMA ByteReturnMaps == ASSUME RInv, ByteReturn PROVE Shape' /\ Delivered' /\ Maps
<1>1. /\ pc = "body" /\ call.op \in {"peek_byte", "read_byte"} /\ UNCHANGED <<fd, call, lost>>
      /\ \/ Throw("UnexpectedEOF")
         \/ /\ ~no_data /\ out' = Copied(1) /\ pc' = "ret" /\ outcome' = "ok"
            /\ UNCHANGED file_pos_of_buffer_start
            /\ buffer_pos' = IF call.op = "read_byte" THEN buffer_pos + 1 ELSE buffer_pos
  BY DEF ByteReturn, InLoop, handle, Finish, window
<1>2. Kind \in AskFirst
  BY <1>1 DEF RInv, Shape, Place
<1>3. CASE Throw("UnexpectedEOF")
  <2>1. call.op # "seek" /\ call.loop # "skip" /\ Thrown("UnexpectedEOF")
    BY <1>1, <1>2 DEF Kind, AskFirst, Exact, AtMost, Thrown
  <2>. QED
    BY <1>1, <1>3, <2>1, LoopEndsMaps
<1>4. CASE /\ ~no_data /\ out' = Copied(1) /\ pc' = "ret" /\ outcome' = "ok"
           /\ UNCHANGED file_pos_of_buffer_start
           /\ buffer_pos' = IF call.op = "read_byte" THEN buffer_pos + 1 ELSE buffer_pos
  <2>1. buffer_pos < buffer_size /\ buffer_pos \in Nat /\ buffer_size \in Nat
    BY <1>1, <1>4, Numbers DEF RInv, IInv, Control
  <2>2. Len(out') = 1
    BY <1>4 DEF Copied
  <2>3. ~torn => out' = Run(fd, tell, 1) /\ tell = Position
    BY <1>1, <1>4, <2>1, CopiedIsRun, Resting1, SoFar DEF RInv, Delivered, Resting
  <2>4. (torn <=> torn') /\ tell' = IF call.op = "read_byte" THEN tell + 1 ELSE tell
    BY <1>4, <1>1, Numbers DEF tell, torn, RInv
  <2>5. CASE call.op = "read_byte"
    BY <1>1, <1>4, <2>2, <2>3, <2>4, <2>5, ReadsMap, Stops
  <2>6. CASE call.op = "peek_byte"
    <3>1. CASE torn
      BY <1>1, <1>4, <2>4, <2>6, <3>1, WandersMap, Stops
    <3>2. CASE ~torn
      <4>1. Abstract!Peeks(Answered')
        BY <1>1, <1>4, <2>3, <2>4, <2>6, <3>2, Returning
        DEF Abstract!Peeks, Abstract!Bytes, Abstract!Keeps, Run
      <4>. QED
        BY <1>1, <1>4, <3>2, <4>1, Returning, Stops DEF Maps, Abstract!Called
    <3>. QED
      BY <3>1, <3>2
  <2>. QED
    BY <1>1, <2>5, <2>6
<1>. QED
  BY <1>1, <1>3, <1>4

-----------------------------------------------------------------------------
(* The loops.                                                              *)

(* read_bytes() and read_bytes_at_most() copy out of the buffer.           *)
LEMMA CopiesMap ==
  ASSUME RInv, CopyThenRefill, UNCHANGED <<fd, lost, call>>, pc \in {"body", "more"},
         Kind \in Exact \cup AtMost
  PROVE  Shape' /\ Delivered' /\ Maps
<1>1. /\ Shape' /\ Delivered'
      /\ ~torn => /\ out' = Run(fd, call.start, Len(out'))
                  /\ pc' = "ret" => tell' = call.start + Len(out')
      /\ pc' = "ret" => \/ outcome' = "ok" /\ Len(out') = call.arg
                        \/ outcome' = "AttemptToReadAClosedFile"
  BY Copies
<1>2. call.op \in {"read_bytes", "read_bytes_to_end", "read_bytes_at_most"}
  BY DEF Kind, Exact, AtMost
<1>3. pc' \notin {"ret", "idle"} \/ pc' = "ret"
  BY DEF CopyThenRefill, HasNoDataLeft, FhRead, Finish
<1>4. (torn <=> torn') /\ Position = call.start
  BY SoFar DEF torn
<1>5. call.arg \in Int
  BY Argument, Numbers DEF RInv
<1>6. pc' = "ret" => Maps
  BY <1>1, <1>2, <1>4, <1>5, ReadsMap, FailsMap DEF Thrown
<1>7. pc' \notin {"ret", "idle"} => Maps
  BY GoingOnMaps
<1>. QED
  BY <1>1, <1>3, <1>6, <1>7

LEMMA LargeReadMaps ==
  ASSUME RInv, LargeRead, UNCHANGED <<fd, off, lost, call>>, pc = "body", Kind \in Exact,
         left > buffer_capacity
  PROVE  Shape' /\ Delivered' /\ Maps
<1>1. /\ out' = out \o Copied(Available) /\ left' = left - Available
      /\ UNCHANGED <<file_pos_of_buffer_start, buffer_size, buffer_pos>>
      /\ \/ pc' = "bulk" /\ got' = 0
         \/ pc' = "ret" /\ outcome' = "AttemptToReadAClosedFile"
  BY DEF LargeRead, FhRead, StartRead, Finish, window
<1>2. /\ buffer_pos \in Nat /\ buffer_size \in Nat /\ file_pos_of_buffer_start \in Nat
      /\ buffer_pos <= buffer_size /\ Len(out) \in Nat /\ left \in Nat /\ call.start \in Nat
      /\ call.arg \in Int /\ off \in Nat
  BY Argument, Numbers DEF RInv, IInv, Control
<1>3. Available \in Nat /\ buffer_pos + Available <= buffer_size
  BY <1>2 DEF Available
<1>4. Len(out') = Len(out) + Available
  BY <1>1, <1>3, CopiedLen DEF RInv
<1>5. /\ Len(out) = 0 /\ Len(out) + left = call.arg /\ call.loop \in {"exact", "at_most"}
      /\ call.op \in {"read_bytes", "read_bytes_to_end"}
  BY SoFar DEF RInv, Shape, Kind, Exact
<1>6. /\ Position = call.start /\ pc \in Resting
      /\ ~torn => /\ out = Run(fd, call.start, Len(out)) /\ tell = call.start + Len(out)
                  /\ off = file_pos_of_buffer_start + buffer_size
  BY <1>5, SoFar, Resting1 DEF RInv
<1>7. ~torn => out' = Run(fd, call.start, Len(out'))
  BY <1>1, <1>2, <1>3, <1>6, DeliversMore
<1>8. tell' = tell /\ (torn <=> torn') /\ Kind' = Kind
  BY <1>1 DEF tell, torn, Kind
<1>9. CASE pc' = "bulk" /\ got' = 0
  <2>1. Len(out') + left' = call.arg + got'
    BY <1>1, <1>2, <1>3, <1>4, <1>5, <1>9
  <2>2. Shape'
    BY <1>8, <1>9, <2>1 DEF Shape, Place
  <2>3. ~torn => tell' = call.start /\ off' = call.start + Len(out')
    BY <1>2, <1>3, <1>4, <1>5, <1>6, <1>8 DEF tell, Available
  <2>4. Delivered'
    BY <1>7, <1>8, <1>9, <2>3 DEF Delivered
  <2>. QED
    BY <1>9, <2>2, <2>4, GoingOnMaps
<1>10. CASE pc' = "ret" /\ outcome' = "AttemptToReadAClosedFile"
  BY <1>2, <1>5, <1>6, <1>7, <1>8, <1>10, FailsMap, Stops DEF Thrown
<1>. QED
  BY <1>1, <1>9, <1>10

LEMMA ReadBytesLoopMaps ==
  ASSUME RInv, ReadBytesBody \/ ReadBytesMore
  PROVE  Shape' /\ Delivered' /\ Maps
<1>1. /\ pc \in {"body", "more"} /\ call.loop = "exact" /\ UNCHANGED <<fd, off, lost, call>>
      /\ \/ Throw("UnexpectedEOF") \/ CopyThenRefill
         \/ pc = "body" /\ left > buffer_capacity /\ LargeRead
  BY DEF ReadBytesBody, ReadBytesMore, InLoop, handle
<1>2. Kind \in Exact
  BY <1>1, SoFar DEF RInv, Shape, Kind, AskFirst, GoOn, Exact, AtMost
<1>3. call.op \notin {"open", "close", "seek"}
  BY <1>2 DEF Kind, Exact
<1>. QED
  BY <1>1, <1>2, <1>3, LoopEndsMaps, CopiesMap, LargeReadMaps DEF Thrown

LEMMA ReadBytesAtMostLoopMaps ==
  ASSUME RInv, ReadBytesAtMostBody \/ ReadBytesAtMostMore
  PROVE  Shape' /\ Delivered' /\ Maps
<1>1. /\ pc \in {"body", "more"} /\ call.loop = "at_most" /\ UNCHANGED <<fd, lost, call>>
      /\ Throw("ok") \/ CopyThenRefill
  BY DEF ReadBytesAtMostBody, ReadBytesAtMostMore, InLoop, handle
<1>2. Kind \in AtMost
  BY <1>1, SoFar DEF RInv, Shape, Kind, AskFirst, GoOn, Exact, AtMost
<1>3. CASE Throw("ok")
  <2>1. /\ Shape' /\ Delivered' /\ outcome' = "ok" /\ out' = out /\ tell' = tell
        /\ pc' = "ret" /\ (torn <=> torn')
    BY <1>1, <1>2, <1>3, LoopEndsMaps DEF Kind, AtMost
  <2>2. Len(out) + left = call.arg /\ call.op = "read_bytes_at_most"
    BY <1>1, <1>2, SoFar DEF RInv, Shape, Kind, AtMost
  <2>3. Len(out) <= call.arg
    BY <2>2, Numbers DEF RInv
  <2>4. ~torn => out' = Run(fd, Position, Len(out')) /\ tell' = Position + Len(out')
    BY <1>1, <2>1, SoFar
  <2>. QED
    BY <1>1, <2>1, <2>2, <2>3, <2>4, ReadsMap
<1>. QED
  BY <1>1, <1>2, <1>3, CopiesMap

LEMMA DrainMoreMaps == ASSUME RInv, DrainMore PROVE Shape' /\ Delivered' /\ Maps
<1>1. /\ pc = "more" /\ call.loop = "drain" /\ UNCHANGED <<fd, lost, call>>
      /\ Throw("ok") \/ DrainThenRefill
  BY DEF DrainMore, InLoop, handle
<1>2. Kind \in GoOn
  BY <1>1, SoFar DEF RInv, Shape
<1>3. call.op \in {"read_bytes_all", "read_bytes_to_end"}
  BY <1>1, <1>2 DEF Kind, GoOn, Exact, AtMost
<1>4. CASE Throw("ok")
  <2>1. /\ Shape' /\ Delivered' /\ outcome' = "ok" /\ out' = out /\ tell' = tell
        /\ pc' = "ret" /\ (torn <=> torn')
    BY <1>1, <1>3, <1>4, LoopEndsMaps
  <2>2. ~torn => out' = Run(fd, Position, Len(out')) /\ tell' = Position + Len(out')
    BY <1>1, <2>1, SoFar
  <2>3. call.op = "read_bytes_all" => Position = 0
    BY <1>1, SoFar DEF RInv, FromTheStart
  <2>. QED
    BY <1>1, <1>3, <2>1, <2>2, <2>3, ReadsMap
<1>5. CASE DrainThenRefill
  <2>1. buffer_pos <= buffer_size /\ call.start \in Nat
    BY <1>1, Numbers DEF RInv, IInv, Control
  <2>2. /\ Shape' /\ Delivered'
        /\ ~torn => /\ out' = Run(fd, call'.start, Len(out'))
                    /\ pc' = "ret" => tell' = call'.start + Len(out')
        /\ pc' = "ret" => outcome' = "AttemptToReadAClosedFile"
    <3>1. Kind' = Kind /\ call' = call
      BY <1>1 DEF Kind
    <3>. QED
      BY <1>1, <1>2, <1>5, <2>1, <3>1, SoFar, Drains
  <2>3. pc' \notin {"ret", "idle"} \/ pc' = "ret"
    BY <1>5 DEF DrainThenRefill, HasNoDataLeft, FhRead, Finish
  <2>4. (torn <=> torn') /\ Position = call.start
    BY <1>1, SoFar DEF torn
  <2>5. pc' = "ret" => Maps
    BY <1>1, <1>3, <2>2, <2>4, FailsMap DEF Thrown
  <2>. QED
    BY <1>1, <2>2, <2>3, <2>5, GoingOnMaps
<1>. QED
  BY <1>1, <1>4, <1>5

-----------------------------------------------------------------------------
(* seek()                                                                  *)

(* The loop of a seek goes past the buffer.                                *)
LEMMA SkipsMap ==
  ASSUME RInv, pc \in Resting, NEW at_end, HasNoDataLeft("more", buffer_size, at_end),
         UNCHANGED <<fd, lost, left, out>>, out = <<>>, Kind' = <<"seek", "skip">>,
         pc = "idle" => call'.start = tell, pc # "idle" => UNCHANGED call,
         call'.start \in Nat, Position = call'.start,
         ~torn => call'.start <= file_pos_of_buffer_start + buffer_size
  PROVE  Shape' /\ Delivered' /\ Maps
<1>1. Len(out') = 0 /\ Kind' \in GoOn /\ call'.op = "seek" /\ call'.loop = "skip"
      /\ out' = Run(fd, call'.start, Len(out'))
  BY EmptyRun DEF GoOn, Kind
<1>2. Shape' /\ Delivered'
  BY <1>1, GoesOn DEF RInv
<1>3. pc' \notin {"ret", "idle"} \/ pc' = "ret"
  BY DEF HasNoDataLeft, FhRead, Finish
<1>4. pc' = "ret" => Maps
  <2>1. pc # "ret"
    BY DEF Resting
  <2>2. pc' = "ret" => /\ outcome' = "AttemptToReadAClosedFile"
                       /\ ~torn => tell' = file_pos_of_buffer_start + buffer_size
    BY Refused
  <2>3. torn <=> torn'
    BY DEF torn
  <2>4. pc' = "ret" /\ ~torn => tell' >= Position
    BY <2>2, Numbers DEF RInv
  <2>. QED
    BY <1>1, <2>1, <2>2, <2>3, <2>4, FailsMap DEF Thrown
<1>5. pc' \notin {"ret", "idle"} => Maps
  BY GoingOnMaps DEF Resting
<1>. QED
  BY <1>2, <1>3, <1>4, <1>5

LEMMA SeekMoreMaps == ASSUME RInv, SeekMore PROVE Shape' /\ Delivered' /\ Maps
<1>1. /\ pc = "more" /\ call.loop = "skip" /\ UNCHANGED <<fd, lost, call>>
      /\ \/ /\ BeyondWindow /\ HasNoDataLeft("more", buffer_size, is_eof_reached)
            /\ UNCHANGED <<left, out>>
         \/ Throw("SeekFailed")
         \/ /\ pc' = "ret" /\ outcome' = "ok" /\ UNCHANGED <<out, file_pos_of_buffer_start>>
            /\ buffer_pos' = call.arg - file_pos_of_buffer_start
  BY DEF SeekMore, InLoop, handle, Finish, window
<1>2. Position = call.start /\ Kind = <<"seek", "skip">> /\ out = <<>> /\ pc \in Resting
  BY <1>1, SoFar DEF RInv, Shape, GoOn, Kind, Exact, AtMost
<1>3. call.op = "seek" /\ (torn <=> torn') /\ call.start \in Nat /\ Kind' = Kind
  BY <1>1, <1>2, Numbers DEF Kind, torn, RInv
<1>4. ~torn => call.start <= file_pos_of_buffer_start
  BY <1>1 DEF RInv, Delivered
<1>5. CASE /\ BeyondWindow /\ HasNoDataLeft("more", buffer_size, is_eof_reached)
           /\ UNCHANGED <<left, out>>
  <2>1. ~torn => call.start <= file_pos_of_buffer_start + buffer_size
    BY <1>4, Numbers DEF RInv
  <2>. QED
    BY <1>1, <1>2, <1>3, <1>5, <2>1, SkipsMap
<1>6. CASE Throw("SeekFailed")
  <2>1. /\ Shape' /\ Delivered' /\ outcome' = "SeekFailed" /\ out' = out /\ tell' = tell /\ pc' = "ret"
    BY <1>1, <1>3, <1>6, LoopEndsMaps
  <2>2. ~torn => tell' >= Position
    BY <1>2, <1>4, <2>1, Numbers DEF RInv, tell
  <2>3. out' = Run(fd, Position, Len(out'))
    BY <1>2, <2>1, EmptyRun
  <2>. QED
    BY <1>1, <1>3, <2>1, <2>2, <2>3, FailsMap DEF Thrown
<1>7. CASE /\ pc' = "ret" /\ outcome' = "ok" /\ UNCHANGED <<out, file_pos_of_buffer_start>>
           /\ buffer_pos' = call.arg - file_pos_of_buffer_start
  <2>1. tell' = call.arg
    <3>1. call.arg \in Int /\ file_pos_of_buffer_start \in Nat
      BY Argument, Numbers DEF RInv
    <3>2. file_pos_of_buffer_start + (call.arg - file_pos_of_buffer_start) = call.arg
      BY <3>1
    <3>. QED
      BY <1>7, <3>2 DEF tell
  <2>. QED
    BY <1>1, <1>2, <1>3, <1>7, <2>1, SeeksMap, Stops
<1>. QED
  BY <1>1, <1>5, <1>6, <1>7

(* A call that throws at once, and has not moved.                          *)
LEMMA ThrowsAtOnce ==
  ASSUME RInv, pc = "idle", NEW e, Throw(e), UNCHANGED <<fd, lost>>,
         call'.op \notin {"open", "close"}
  PROVE  /\ Shape' /\ Delivered' /\ outcome' = e /\ out' = <<>> /\ tell' = tell
         /\ pc' = "ret" /\ (torn <=> torn')
         /\ Thrown(e) => Maps
<1>1. /\ pc' = "ret" /\ outcome' = e /\ UNCHANGED <<out, file_pos_of_buffer_start, buffer_pos>>
  BY DEF Throw, Finish, window
<1>2. tell' = tell /\ (torn <=> torn') /\ out = <<>> /\ Position = tell /\ tell \in Nat
  BY <1>1, AtIdle DEF tell, torn, Position
<1>3. out' = Run(fd, Position, Len(out')) /\ Len(out') = 0
  BY <1>1, <1>2, EmptyRun
<1>4. Thrown(e) => Maps
  BY <1>1, <1>2, <1>3, FailsMap
<1>. QED
  BY <1>1, <1>2, <1>4, Stops

LEMMA SeekAndRefillMaps ==
  ASSUME RInv, NEW p, SeekAndRefill(p), pc = "idle", UNCHANGED fd,
         Kind' = <<"seek", "skip">>, call'.start = tell
  PROVE  Shape' /\ Delivered' /\ Maps
<1>1. /\ file_pos_of_buffer_start' = SeekBase(p) /\ UNCHANGED <<buffer_pos, out>>
      /\ \/ pc' = "refill" /\ UNCHANGED lost
         \/ /\ pc' = "ret" /\ outcome' \in {"AttemptToReadAClosedFile", "SeekFailed"}
            /\ \E e : Lose(SeekBase(p) # file_pos_of_buffer_start, e) /\ e # "none"
  BY DEF SeekAndRefill, Finish
<1>2. out = <<>> /\ tell \in Nat /\ Position = tell /\ call'.op = "seek"
  BY AtIdle DEF Position, Kind
<1>3. out' = Run(fd, tell, Len(out')) /\ Len(out') = 0
  BY <1>1, <1>2, EmptyRun
<1>4. CASE pc' = "refill" /\ UNCHANGED lost
  <2>1. Shape'
    BY <1>1, <1>2, <1>4 DEF Shape, Place
  <2>2. Delivered'
    BY <1>3, <1>4 DEF Delivered
  <2>. QED
    BY <1>4, <2>1, <2>2, GoingOnMaps
<1>5. CASE /\ pc' = "ret" /\ outcome' \in {"AttemptToReadAClosedFile", "SeekFailed"}
           /\ \E e : Lose(SeekBase(p) # file_pos_of_buffer_start, e) /\ e # "none"
  <2>1. (torn => torn') /\ (~torn' => SeekBase(p) = file_pos_of_buffer_start)
    BY <1>5 DEF Lose, torn
  <2>2. ~torn' => tell' = tell
    BY <1>1, <2>1 DEF tell
  <2>. QED
    BY <1>2, <1>3, <1>5, <2>1, <2>2, FailsMap, Stops DEF Thrown
<1>. QED
  BY <1>1, <1>4, <1>5

LEMMA SeekMaps == ASSUME RInv, NEW p \in Targets, Seek(p) PROVE Shape' /\ Delivered' /\ Maps
<1>1. CASE SeekNegative(p)
  <2>1. /\ pc = "idle" /\ Throw("SeekFailed") /\ UNCHANGED <<fd, lost>> /\ call'.op = "seek"
    BY <1>1 DEF SeekNegative, Begin, handle
  <2>. QED
    BY <2>1, ThrowsAtOnce DEF Thrown
<1>2. CASE SeekWithinBuffer(p)
  <2>1. /\ pc = "idle" /\ pc' = "ret" /\ outcome' = "ok" /\ call'.op = "seek" /\ call'.arg = p
        /\ UNCHANGED <<fd, lost, file_pos_of_buffer_start, out>>
        /\ buffer_pos' = p - file_pos_of_buffer_start
    BY <1>2 DEF SeekWithinBuffer, Begin, handle, window, Finish
  <2>2. p \in Int /\ out = <<>>
    BY <2>1, IFileAssumption, AtIdle
  <2>3. tell' = p /\ torn' = torn
    BY <2>1, <2>2, Numbers DEF tell, torn, RInv
  <2>. QED
    BY <2>1, <2>2, <2>3, SeeksMap, Stops
<1>3. CASE SeekOutsideBuffer(p)
  <2>1. PICK s \in FileSizeResults :
          /\ pc = "idle" /\ UNCHANGED fd /\ call' = [op |-> "seek", arg |-> p, loop |-> "skip", start |-> tell]
          /\ \/ \E e : Throw(e) /\ UNCHANGED lost /\ Thrown(e)
             \/ s = NotRegular /\ SeekForward(p) /\ UNCHANGED lost
             \/ SeekAndRefill(p)
    BY <1>3 DEF SeekOutsideBuffer, Begin, FileSizeError, Thrown
  <2>2. call'.op = "seek" /\ call'.start = tell /\ Kind' = <<"seek", "skip">>
    BY <2>1 DEF Kind
  <2>3. CASE \E e : Throw(e) /\ UNCHANGED lost /\ Thrown(e)
    BY <2>1, <2>2, <2>3, ThrowsAtOnce
  <2>4. CASE s = NotRegular /\ SeekForward(p) /\ UNCHANGED lost
    <3>1. CASE Throw("FileDoesNotSupportPositioning")
      BY <2>1, <2>2, <2>4, <3>1, ThrowsAtOnce DEF Thrown
    <3>2. CASE HasNoDataLeft("more", buffer_size, FALSE) /\ UNCHANGED <<left, out>>
      <4>1. buffer_pos <= buffer_size
        BY <2>4, SizesAsked DEF RInv
      <4>2. tell <= file_pos_of_buffer_start + buffer_size
        BY <4>1, Numbers DEF RInv, tell
      <4>3. out = <<>> /\ tell \in Nat /\ pc \in Resting /\ Position = tell
        BY <2>1, AtIdle DEF Position
      <4>. QED
        BY <2>1, <2>2, <2>4, <3>2, <4>2, <4>3, SkipsMap
    <3>. QED
      BY <2>4, <3>1, <3>2 DEF SeekForward
  <2>5. CASE SeekAndRefill(p)
    BY <2>1, <2>2, <2>5, SeekAndRefillMaps
  <2>. QED
    BY <2>1, <2>3, <2>4, <2>5
<1>. QED
  BY <1>1, <1>2, <1>3 DEF Seek

-----------------------------------------------------------------------------
(* Calls.                                                                  *)

LEMMA CallsAtEofMap ==
  ASSUME RInv, AtEofCall \/ PeekByte \/ ReadByte
                 \/ \E n \in Counts : ReadBytes(n) \/ ReadBytesAtMost(n)
  PROVE  Shape' /\ Delivered' /\ Maps
<1>1. /\ Shape' /\ Delivered' /\ pc = "idle" /\ UNCHANGED <<fd, lost, out>> /\ call'.start = tell
      /\ call'.op \notin {"seek", "open", "close"}
      /\ pc' = "ret" => outcome' = "AttemptToReadAClosedFile" /\ (~torn => tell' = tell)
  BY CallsAtEofShape
<1>2. pc' \notin {"ret", "idle"} \/ pc' = "ret"
  BY DEF AtEofCall, PeekByte, ReadByte, ReadBytes, ReadBytesAtMost, CallAtEof, AtEof,
     HasNoDataLeft, FhRead, Finish
<1>3. Position = tell /\ out' = Run(fd, Position, Len(out')) /\ (torn <=> torn')
  BY <1>1, AtIdle DEF Position, torn
<1>4. pc' = "ret" => Maps
  BY <1>1, <1>3, FailsMap DEF Thrown
<1>. QED
  BY <1>1, <1>2, <1>4, GoingOnMaps

LEMMA WholeFileMaps ==
  ASSUME RInv, ReadBytesAll \/ ReadBytesToEnd
  PROVE  Shape' /\ Delivered' /\ Maps
<1>1. /\ Shape' /\ Delivered' /\ pc = "idle" /\ UNCHANGED <<fd, lost>> /\ call'.start = tell
      /\ call'.op \notin {"seek", "open", "close"}
      /\ pc' = "ret" =>
           /\ outcome' \notin {"ok", "true", "false"}
           /\ ~torn => out' = Run(fd, tell, Len(out')) /\ tell' \in {tell, tell + Len(out')}
  BY ReadBytesAllShape, ReadBytesToEndShape
<1>2. pc' \notin {"ret", "idle"} \/ pc' = "ret"
  BY DEF ReadBytesAll, ReadBytesToEnd, Throw, DrainThenRefill, ReadWhole, AtEof,
     HasNoDataLeft, FhRead, Finish
<1>3. Position = tell /\ (torn <=> torn')
  BY <1>1 DEF Position, torn
<1>4. pc' = "ret" => Maps
  BY <1>1, <1>3, FailsMap DEF Thrown
<1>. QED
  BY <1>1, <1>2, <1>4, GoingOnMaps

LEMMA OpenMaps == ASSUME RInv, NEW f \in Files, Open(f) PROVE Shape' /\ Delivered' /\ Maps
<1>1. /\ pc = "idle" /\ call'.op = "open" /\ UNCHANGED <<lost, out, file_pos_of_buffer_start, buffer_pos>>
      /\ pc' = "ret"
      /\ \/ fd # NoFile /\ outcome' = "FileIsAlreadyOpened" /\ UNCHANGED fd
         \/ fd = NoFile /\ outcome' = "false" /\ UNCHANGED fd
         \/ fd = NoFile /\ outcome' = "true"
  BY DEF Open, Begin, Throw, Finish, handle, window
<1>2. /\ Position = tell /\ tell' = tell /\ out' = <<>> /\ torn' = torn
      /\ ~torn /\ fd = NoFile => tell = 0
  BY <1>1, AtIdle, Resting1 DEF Position, tell, torn, RInv
<1>3. CASE torn
  <2>1. Abstract!WandersOpen(Answered')
    BY <1>1, <1>2, <1>3, Returning DEF Abstract!WandersOpen
  <2>. QED
    BY <1>1, <2>1, Returning, Stops DEF Maps, Abstract!Called
<1>4. CASE ~torn
  <2>1. Abstract!Opens(Answered')
    BY <1>1, <1>2, <1>4, Returning DEF Abstract!Opens
  <2>. QED
    BY <1>1, <1>4, <2>1, Returning, Stops DEF Maps, Abstract!Called
<1>. QED
  BY <1>3, <1>4

LEMMA CloseMaps == ASSUME RInv, Close PROVE Shape' /\ Delivered' /\ Maps
<1>1. /\ pc = "idle" /\ call'.op = "close" /\ pc' = "ret" /\ fd' = NoFile /\ lost' = "none"
      /\ buffer_pos' = 0 /\ file_pos_of_buffer_start' = 0
  BY DEF Close, Begin, CloseHandle, ResetWindow, Finish
<1>2. tell' = 0 /\ ~torn'
  BY <1>1 DEF tell, torn
<1>3. Abstract!Closes(Answered')
  BY <1>1, <1>2, Returning DEF Abstract!Closes
<1>. QED
  BY <1>1, <1>3, Returning, Stops DEF Maps, Abstract!Called

LEMMA SetBufferSizeMaps ==
  ASSUME RInv, NEW c \in Capacities, SetBufferSize(c)
  PROVE  Shape' /\ Delivered' /\ Maps
<1>1. /\ pc = "idle" /\ call'.op = "set_buffer_size" /\ pc' = "ret"
      /\ UNCHANGED <<fd, lost, out, file_pos_of_buffer_start, buffer_pos>>
  BY DEF SetBufferSize, Begin, Finish, handle, window
<1>2. Position = tell /\ tell' = tell /\ out' = <<>> /\ torn' = torn
  BY <1>1, AtIdle DEF Position, tell, torn
<1>. QED
  BY <1>1, <1>2, TellsMap, Stops

LEMMA GetFileSizeMaps == ASSUME RInv, GetFileSize PROVE Shape' /\ Delivered' /\ Maps
<1>1. /\ pc = "idle" /\ call'.op = "get_file_size" /\ UNCHANGED <<fd, lost>> /\ \E e : Throw(e)
  BY DEF GetFileSize, Begin, GotFileSize
<1>2. /\ Shape' /\ Delivered' /\ out' = <<>> /\ tell' = tell /\ pc' = "ret" /\ (torn <=> torn')
  BY <1>1, ThrowsAtOnce
<1>. QED
  BY <1>1, <1>2, TellsMap DEF Position

-----------------------------------------------------------------------------
(* All steps.                                                              *)

LEMMA TakeMaps == ASSUME RInv, Take PROVE Shape' /\ Delivered' /\ Abstract!Take
<1>1. /\ pc = "ret" /\ pc' = "idle" /\ out' = <<>>
      /\ UNCHANGED <<fd, lost, file_pos_of_buffer_start, buffer_pos>>
  BY DEF Take, handle, window
<1>2. Position' = Position /\ torn' = torn
  BY <1>1 DEF Position, tell, torn
<1>3. Answered # Abstract!NoAnswer /\ Answered' = Abstract!NoAnswer
  BY <1>1, AnAnswer DEF Answered, Abstract!NoAnswer
<1>4. Shape' /\ Delivered'
  BY <1>1 DEF Shape, Delivered, Place, Sites
<1>. QED
  BY <1>1, <1>2, <1>3, <1>4 DEF Abstract!Take

LEMMA StillMaps ==
  ASSUME RInv, UNCHANGED <<handle, transfer, window, buffer_pos, frame, lost>>
  PROVE  Shape' /\ Delivered' /\ UNCHANGED Abstract!vars
<1>1. UNCHANGED <<fd, off, got, file_pos_of_buffer_start, buffer_size, buffer_pos,
                  pc, ret, call, left, out, outcome, lost>>
  BY DEF handle, transfer, window, frame
<1>2. UNCHANGED <<fd, Position, torn, Answered>>
  BY <1>1 DEF Position, torn, Answered, tell
<1>. QED
  BY <1>1, <1>2, StillRInv DEF Abstract!vars

LEMMA NextFromTheStart == RInv /\ [Next]_vars => FromTheStart'
<1> SUFFICES ASSUME RInv, [Next]_vars, pc' # "ret", call'.op = "read_bytes_all"
             PROVE  call'.start = 0
  BY DEF FromTheStart
<1>1. CASE Call
  <2>1. ReadBytesAll
    BY <1>1 DEF Call, AtEofCall, PeekByte, ReadByte, ReadBytes, ReadBytesAtMost, CallAtEof,
       ReadBytesToEnd, Seek, SeekNegative, SeekWithinBuffer, SeekOutsideBuffer, Open, Close,
       SetBufferSize, GetFileSize, Begin
  <2>2. AtBeginning /\ call'.start = tell
    BY <2>1 DEF ReadBytesAll, Begin, Throw, Finish
  <2>. QED
    BY <2>2 DEF AtBeginning, tell
<1>2. CASE Step
  <2>1. ~Take /\ pc # "ret" /\ call' = call
    BY <1>2 DEF Step, Take, NoCall, ReadIntoBuffer, ReadIntoCaller, ReadFails, FillReturn,
       RefillReturn, BulkReturn, WholeReturn, AtEofReturn, ByteReturn, ReadBytesBody,
       ReadBytesMore, ReadBytesAtMostBody, ReadBytesAtMostMore, DrainMore, SeekMore, InLoop,
       frame, Sites
  <2>. QED
    BY <2>1 DEF RInv, FromTheStart
<1>3. CASE World \/ UNCHANGED vars
  BY <1>3 DEF World, vars, frame, RInv, FromTheStart
<1>. QED
  BY <1>1, <1>2, <1>3 DEF Next

LEMMA CallMaps == RInv /\ Call => Shape' /\ Delivered' /\ Maps
BY CallsAtEofMap, WholeFileMaps, SeekMaps, OpenMaps, CloseMaps, SetBufferSizeMaps,
   GetFileSizeMaps DEF Call

LEMMA StepMaps == RInv /\ Step => Shape' /\ Delivered' /\ (Maps \/ Abstract!Take)
BY ReadIntoBufferMaps, ReadIntoCallerMaps, ReadFailsMaps, FillReturnMaps, RefillReturnMaps,
   BulkReturnMaps, WholeReturnMaps, AtEofReturnMaps, ByteReturnMaps, ReadBytesLoopMaps,
   ReadBytesAtMostLoopMaps, DrainMoreMaps, SeekMoreMaps, TakeMaps DEF Step

LEMMA NextMaps ==
  RInv /\ [Next]_vars => Shape' /\ Delivered' /\ [Abstract!Next]_(Abstract!vars)
<1> SUFFICES ASSUME RInv, [Next]_vars
             PROVE  Shape' /\ Delivered' /\ [Abstract!Next]_(Abstract!vars)
  OBVIOUS
<1>1. CASE Call
  BY <1>1, CallMaps DEF Maps, Abstract!Next
<1>2. CASE Step
  BY <1>2, StepMaps DEF Maps, Abstract!Next
<1>3. CASE World \/ UNCHANGED vars
  BY <1>3, StillMaps DEF World, vars
<1>. QED
  BY <1>1, <1>2, <1>3 DEF Next

LEMMA InitMaps == Init => RInv /\ Abstract!Init
<1> SUFFICES ASSUME Init PROVE RInv /\ Abstract!Init
  OBVIOUS
<1>1. IInv /\ CInv /\ Named
  BY InitIInv, InitCInv, InitNamed
<1>2. /\ pc = "idle" /\ out = <<>> /\ fd = NoFile /\ lost = "none" /\ call = NoCall
      /\ buffer_pos = 0 /\ file_pos_of_buffer_start = 0
  BY DEF Init, HandleInit
<1>3. Shape /\ Delivered /\ FromTheStart
  BY <1>2 DEF Shape, Delivered, FromTheStart, Place, Sites, NoCall
<1>4. Position = 0 /\ ~torn /\ Answered = <<>>
  BY <1>2 DEF Position, torn, tell, Answered
<1>. QED
  BY <1>1, <1>2, <1>3, <1>4 DEF RInv, Abstract!Init, Abstract!NoAnswer

LEMMA NextRInv == RInv /\ [Next]_vars => RInv'
BY NextIInv, NextCInv, NextNamed, NextMaps, NextFromTheStart DEF RInv

LEMMA RInvariance == Spec => []RInv
BY InitMaps, NextRInv, PTL DEF Spec

(* IFile.hpp implements ByteStream: for any number of files, any buffer    *)
(* that has room for a seek, any counts and positions, and whatever short  *)
(* counts, errors and growth do in between, each call delivers the bytes   *)
(* from the position on, in order, none twice and none left out, and       *)
(* leaves the position behind them.                                        *)
THEOREM Refinement == Spec => ImplementsByteStream
BY InitMaps, NextMaps, RInvariance, PTL DEF Spec, ImplementsByteStream, Abstract!Spec

-----------------------------------------------------------------------------
(* What the byte calls say about the end of a file, and what read_bytes()  *)
(* and read_bytes_to_end() return.  A short count is proved to mean the    *)
(* end for any files; what concerns the cached size is proved for an       *)
(* object that opens one file again and again, since close() does not      *)
(* forget the size.                                                        *)

(* at_eof() says so when the buffer is empty, and a short count of         *)
(* read_bytes_at_most() comes from the end.                                *)
AnswersAboutTheEnd ==
  /\ pc = "ret" /\ call.op = "at_eof" /\ outcome = "false" => Available > 0
  /\ ShortReadsMeetTheEnd

Still == {"idle", "ret", "aborted"}

(* What read_bytes() and read_bytes_to_end() go by while they run.         *)
Sized ==
  /\ pc \notin Still /\ Kind = <<"read_bytes_to_end", "exact">> =>
       file_size \in Nat /\ call.arg = file_size - call.start
  /\ pc \notin Still \cup {"whole"} /\ call.loop = "drain" => file_size = NotRegular

(* Without text calls, a passed end is one that a read has met.            *)
Indicated == eof_indicator => is_eof_reached

(* A buffer of no bytes is empty after every read: read_bytes_at_most()    *)
(* never comes to its loop with one.                                       *)
Fed == Place = "more" /\ call.loop = "at_most" => buffer_capacity > 0

EInv == RInv /\ WInv /\ Indicated /\ AnswersAboutTheEnd /\ Sized /\ Fed

-----------------------------------------------------------------------------
(* AnswersAboutTheEnd, step by step.                                       *)

(* Nothing is said of a running call, nor by the other calls.              *)
LEMMA SaysNothing ==
  ASSUME \/ pc' # "ret"
         \/ outcome' \notin {"ok", "false"}
         \/ call'.op \notin {"at_eof", "read_bytes_at_most"}
  PROVE  AnswersAboutTheEnd'
BY DEF AnswersAboutTheEnd, ShortReadsMeetTheEnd

LEMMA CallSaysNothing == ASSUME EInv, Call PROVE AnswersAboutTheEnd'
<1>1. CASE \/ AtEofCall \/ PeekByte \/ ReadByte
           \/ \E n \in Counts : ReadBytes(n) \/ ReadBytesAtMost(n)
  <2>1. AtEof("body")
    BY <1>1 DEF AtEofCall, PeekByte, ReadByte, ReadBytes, ReadBytesAtMost, CallAtEof
  <2>. QED
    BY <2>1, SaysNothing DEF AtEof, HasNoDataLeft, FhRead, Finish
<1>2. CASE ~(\/ AtEofCall \/ PeekByte \/ ReadByte
             \/ \E n \in Counts : ReadBytes(n) \/ ReadBytesAtMost(n))
  <2>1. call'.op \notin {"at_eof", "read_bytes_at_most"}
    BY <1>2 DEF Call, ReadBytesAll, ReadBytesToEnd, Seek, SeekNegative, SeekWithinBuffer,
       SeekOutsideBuffer, Open, Close, SetBufferSize, GetFileSize, Begin
  <2>. QED
    BY <2>1, SaysNothing
<1>. QED
  BY <1>1, <1>2

(* at_eof() says false only where a byte is left.                          *)
LEMMA AtEofReturnAnswers == ASSUME EInv, AtEofReturn PROVE AnswersAboutTheEnd'
<1>1. /\ pc = "body" /\ call.op = "at_eof" /\ call' = call
      /\ outcome' = (IF no_data THEN "true" ELSE "false")
      /\ UNCHANGED <<buffer_pos, buffer_size>>
  BY DEF AtEofReturn, InLoop, Throw, Finish, window
<1>2. ~no_data => buffer_pos < buffer_size
  BY <1>1 DEF EInv, RInv, IInv, Control
<1>3. outcome' = "false" => Available' > 0
  BY <1>1, <1>2, Numbers DEF EInv, RInv, Available
<1>. QED
  BY <1>1, <1>3 DEF AnswersAboutTheEnd, ShortReadsMeetTheEnd

(* A short count: the end has been met, and eof_indicator says so unless   *)
(* the call came there with nothing.                                       *)
LEMMA ReadBytesAtMostAnswers ==
  ASSUME EInv, ReadBytesAtMostBody \/ ReadBytesAtMostMore
  PROVE  AnswersAboutTheEnd'
<1>1. /\ pc \in {"body", "more"} /\ call.loop = "at_most"
      /\ UNCHANGED <<fd, zero_at, is_eof_reached, buffer_capacity, call, lost>>
      /\ \/ CopyThenRefill
         \/ /\ no_data /\ Throw("ok")
            /\ pc = "more" => eof_indicator' = TRUE
  BY DEF ReadBytesAtMostBody, ReadBytesAtMostMore, InLoop, handle, flags
<1>2. Kind \in AtMost
  BY <1>1, SoFar DEF EInv, RInv, Shape, Kind, AskFirst, GoOn, Exact, AtMost
<1>3. CASE CopyThenRefill
  <2>1. CASE pc' = "ret" /\ outcome' = "ok"
    <3>1. Len(out') = call.arg /\ call.arg \in Int /\ call.op # "at_eof"
      BY <1>1, <1>2, <1>3, <2>1, Copies, Argument DEF EInv, Kind, AtMost
    <3>. QED
      BY <1>1, <2>1, <3>1 DEF AnswersAboutTheEnd, ShortReadsMeetTheEnd
  <2>2. CASE pc' # "ret" \/ outcome' \notin {"ok", "false"}
    BY <2>2, SaysNothing
  <2>3. pc' = "ret" => outcome' \in {"ok", "AttemptToReadAClosedFile"}
    BY <1>1, <1>2, <1>3, Copies DEF EInv
  <2>. QED
    BY <2>1, <2>2, <2>3
<1>4. CASE no_data /\ Throw("ok") /\ (pc = "more" => eof_indicator' = TRUE)
  <2>1. buffer_pos = 0 /\ buffer_size = 0 /\ (is_eof_reached \/ buffer_capacity = 0)
    BY <1>1, <1>4 DEF EInv, WInv, Ends, Emptied
  <2>2. /\ pc' = "ret" /\ UNCHANGED <<file_pos_of_buffer_start, buffer_pos, buffer_size, out>>
        /\ call.op = "read_bytes_at_most" /\ no_data' = no_data
    BY <1>2, <1>4 DEF Throw, Finish, window, Kind, AtMost
  <2>3. out' # <<>> => eof_indicator'
    BY <1>1, <1>4, <2>2, SoFar DEF EInv, RInv, Shape
  <2>4. Available' = 0
    BY <2>1, <2>2 DEF Available
  <2>5. CASE is_eof_reached
    <3>1. zero_at \in 0 .. off
      BY <2>5 DEF EInv, WInv, Ends, Flagged
    <3>2. ~torn => off = tell
      BY <1>1, <2>1, Numbers DEF EInv, RInv, CInv, Coherent, tell
    <3>3. tell' = tell /\ torn' = torn
      BY <1>1, <2>2 DEF tell, torn
    <3>4. zero_at' # -1 /\ (~torn' => zero_at' <= tell')
      BY <1>1, <3>1, <3>2, <3>3
    <3>. QED
      BY <1>1, <1>4, <2>2, <2>3, <2>4, <2>5, <3>4 DEF AnswersAboutTheEnd, ShortReadsMeetTheEnd
  <2>6. CASE ~is_eof_reached
    <3>1. buffer_capacity' = 0 /\ pc = "body"
      BY <1>1, <2>1, <2>6 DEF EInv, Fed, Place
    <3>2. out' = <<>>
      BY <2>2, <3>1 DEF EInv, RInv, Shape, Place
    <3>. QED
      BY <1>1, <2>2, <3>1, <3>2 DEF AnswersAboutTheEnd, ShortReadsMeetTheEnd
  <2>. QED
    BY <2>5, <2>6
<1>. QED
  BY <1>1, <1>3, <1>4

(* The other loops are those of other calls.                               *)
LEMMA LoopsSayNothing ==
  ASSUME EInv, ReadBytesBody \/ ReadBytesMore \/ DrainMore \/ SeekMore
  PROVE  AnswersAboutTheEnd'
<1>1. pc \in {"body", "more"} /\ call.loop \in {"exact", "drain", "skip"} /\ call' = call
  BY DEF ReadBytesBody, ReadBytesMore, DrainMore, SeekMore, InLoop
<1>2. call.op \notin {"at_eof", "read_bytes_at_most"}
  BY <1>1, SoFar DEF EInv, RInv, Shape, Kind, AskFirst, GoOn, Exact, AtMost
<1>. QED
  BY <1>1, <1>2, SaysNothing

LEMMA StepAnswers == ASSUME EInv, Step PROVE AnswersAboutTheEnd'
<1>1. CASE ReadIntoBuffer \/ ReadIntoCaller \/ ReadFails \/ FillReturn \/ Take
  <2>1. pc' # "ret" \/ outcome' = "IOError"
    BY <1>1 DEF ReadIntoBuffer, ReadIntoCaller, ReadFails, FillReturn, Take, Finish, frame,
       EInv, WInv, IInv, Typed, PlaceOK
  <2>. QED
    BY <2>1, SaysNothing
<1>2. CASE RefillReturn \/ BulkReturn \/ WholeReturn \/ ByteReturn
  <2>1. call'.op \notin {"at_eof", "read_bytes_at_most"}
    BY <1>2 DEF RefillReturn, BulkReturn, WholeReturn, ByteReturn, InLoop, EInv, RInv, Shape,
       Kind, Exact
  <2>. QED
    BY <2>1, SaysNothing
<1>. QED
  BY <1>1, <1>2, AtEofReturnAnswers, ReadBytesAtMostAnswers, LoopsSayNothing DEF Step

LEMMA NextAnswers == EInv /\ [Next]_vars => AnswersAboutTheEnd'
<1>1. ASSUME EInv, World \/ UNCHANGED vars PROVE AnswersAboutTheEnd'
  <2>1. /\ UNCHANGED <<pc, no_data, call, out, outcome, buffer_pos, buffer_size>>
        /\ UNCHANGED <<is_eof_reached, eof_indicator, zero_at, buffer_capacity, lost,
                       file_pos_of_buffer_start>>
    BY <1>1 DEF World, vars, frame, window, flags, handle, memory
  <2>2. Available' = Available /\ tell' = tell /\ torn' = torn
    BY <2>1 DEF Available, tell, torn
  <2>3. AnswersAboutTheEnd
    BY <1>1 DEF EInv
  <2>. QED
    BY <2>1, <2>2, <2>3 DEF AnswersAboutTheEnd, ShortReadsMeetTheEnd
<1>. QED
  BY <1>1, CallSaysNothing, StepAnswers DEF Next

-----------------------------------------------------------------------------
(* The size a call goes by.                                                *)

LEMMA CallSized == ASSUME EInv, Call PROVE Sized'
<1> DEFINE kind == <<call'.op, call'.loop>>
<1>1. CASE ReadBytesAll
  <2>1. /\ call'.op = "read_bytes_all"
        /\ pc' \in Still \cup {"whole"} \/ file_size' = NotRegular
    BY <1>1 DEF ReadBytesAll, Begin, GotFileSize, Throw, Finish, ReadWhole, FhRead, Still
  <2>. QED
    BY <2>1 DEF Sized, Kind
<1>2. CASE ReadBytesToEnd
  <2>1. PICK s \in FileSizeResults :
          /\ file_size' = s /\ call'.start = tell
          /\ \/ pc' \in Still
             \/ s = NotRegular /\ call'.loop = "drain"
             \/ s >= tell /\ call'.loop = "exact" /\ call'.arg = s - tell
    BY <1>2 DEF ReadBytesToEnd, Begin, GotFileSize, Throw, Finish, Still
  <2>2. s >= tell => s \in Nat
    <3>1. s \in Int /\ tell \in Nat
      BY <2>1, Numbers DEF EInv, RInv, IInv, Typed, WorldOK, HandleOK, FileSizeResults, Unknown, NotRegular
    <3>. QED
      BY <3>1
  <2>. QED
    BY <2>1, <2>2 DEF Sized, Kind, Still
<1>3. CASE ~ReadBytesAll /\ ~ReadBytesToEnd
  <2>1. call'.op # "read_bytes_to_end" /\ (call'.loop = "drain" => pc' \in Still)
    BY <1>3 DEF Call, AtEofCall, PeekByte, ReadByte, ReadBytes, ReadBytesAtMost, CallAtEof, Seek,
       SeekNegative, SeekWithinBuffer, SeekOutsideBuffer, Open, Close, SetBufferSize, GetFileSize, Begin
  <2>. QED
    BY <2>1 DEF Sized, Kind
<1>. QED
  BY <1>1, <1>2, <1>3

LEMMA StepSized == ASSUME EInv, Step PROVE Sized'
<1>1. CASE Take
  BY <1>1 DEF Take, Sized, Still
<1>2. CASE ~Take
  <2>1. UNCHANGED <<call, file_size>> /\ pc \notin Still
    BY <1>2 DEF Step, ReadIntoBuffer, ReadIntoCaller, SysRead, ReadFails, FillReturn,
       RefillReturn, BulkReturn, WholeReturn, AtEofReturn, ByteReturn, ReadBytesBody,
       ReadBytesMore, ReadBytesAtMostBody, ReadBytesAtMostMore, DrainMore, SeekMore, InLoop,
       handle, frame, Sites, Still
  <2>2. pc = "whole" => pc' \in {"whole", "ret"}
    BY <1>2 DEF Step, ReadIntoBuffer, ReadIntoCaller, ReadFails, FillReturn, RefillReturn,
       BulkReturn, WholeReturn, AtEofReturn, ByteReturn, ReadBytesBody, ReadBytesMore,
       ReadBytesAtMostBody, ReadBytesAtMostMore, DrainMore, SeekMore, Throw, Finish
  <2>. QED
    BY <2>1, <2>2 DEF EInv, Sized, Kind, Still
<1>. QED
  BY <1>1, <1>2

LEMMA NextSized == EInv /\ [Next]_vars => Sized'
<1>1. ASSUME EInv, World \/ UNCHANGED vars PROVE Sized'
  BY <1>1 DEF World, vars, frame, handle, EInv, Sized, Kind
<1>. QED
  BY <1>1, CallSized, StepSized DEF Next

-----------------------------------------------------------------------------
(* Indicated, step by step.                                                *)

LEMMA CallIndicated == ASSUME EInv, Call PROVE Indicated'
<1>1. ASSUME NEW p, Seek(p) PROVE Indicated'
  BY <1>1 DEF Seek, SeekNegative, SeekWithinBuffer, SeekOutsideBuffer, ForgetEof, flags, EInv, Indicated
<1>2. CASE Close
  BY <1>2 DEF Close, ResetWindow, Indicated
<1>3. CASE ~Close /\ ~ \E p \in Targets : Seek(p)
  <2>1. UNCHANGED flags
    BY <1>3 DEF Call, AtEofCall, PeekByte, ReadByte, ReadBytes, ReadBytesAtMost, CallAtEof, ReadBytesAll,
       ReadBytesToEnd, Open, SetBufferSize, GetFileSize
  <2>. QED
    BY <2>1 DEF EInv, Indicated, flags
<1>. QED
  BY <1>1, <1>2, <1>3

LEMMA StepIndicated == ASSUME EInv, Step PROVE Indicated'
<1>1. CASE FillReturn
  BY <1>1 DEF FillReturn, EInv, Indicated
<1>2. CASE RefillReturn
  BY <1>2 DEF RefillReturn, EInv, Indicated
<1>3. CASE ReadBytesAtMostMore
  <2>1. /\ pc = "more" /\ call.loop = "at_most"
        /\ UNCHANGED flags \/ (no_data /\ UNCHANGED is_eof_reached)
    BY <1>3 DEF ReadBytesAtMostMore, flags
  <2>2. buffer_capacity # 0
    BY <2>1 DEF EInv, Fed, Place
  <2>. QED
    BY <2>1, <2>2 DEF EInv, Indicated, WInv, Ends, Emptied, flags
<1>4. CASE ~FillReturn /\ ~RefillReturn /\ ~ReadBytesAtMostMore
  <2>1. UNCHANGED flags
    BY <1>4 DEF Step, ReadIntoBuffer, ReadIntoCaller, ReadFails, BulkReturn, WholeReturn,
       AtEofReturn, ByteReturn, ReadBytesBody, ReadBytesMore, ReadBytesAtMostBody, DrainMore,
       SeekMore, Take, InLoop
  <2>. QED
    BY <2>1 DEF EInv, Indicated, flags
<1>. QED
  BY <1>1, <1>2, <1>3, <1>4

LEMMA NextIndicated == EInv /\ [Next]_vars => Indicated'
<1>1. World \/ UNCHANGED vars => UNCHANGED flags
  BY DEF World, vars
<1>. QED
  BY <1>1, CallIndicated, StepIndicated DEF Next, EInv, Indicated, flags

-----------------------------------------------------------------------------
(* Fed, step by step.                                                      *)

LEMMA CallFed == ASSUME EInv, Call PROVE Fed'
<1>1. CASE \E n \in Counts : ReadBytesAtMost(n)
  <2>1. AtEof("body") /\ pc = "idle"
    BY <1>1 DEF ReadBytesAtMost, CallAtEof, Begin
  <2>2. pc' \in {"body", "fill", "ret", "aborted"} /\ (pc' = "fill" => ret' = "body")
    BY <2>1 DEF AtEof, HasNoDataLeft, FhRead, Finish
  <2>. QED
    BY <2>2 DEF Fed, Place
<1>2. CASE ~ \E n \in Counts : ReadBytesAtMost(n)
  <2>1. call'.loop # "at_most"
    BY <1>2 DEF Call, AtEofCall, PeekByte, ReadByte, ReadBytes, CallAtEof, ReadBytesAll,
       ReadBytesToEnd, Seek, SeekNegative, SeekWithinBuffer, SeekOutsideBuffer, Open, Close,
       SetBufferSize, GetFileSize, Begin
  <2>. QED
    BY <2>1 DEF Fed
<1>. QED
  BY <1>1, <1>2

LEMMA StepFed == ASSUME EInv, Step PROVE Fed'
<1>1. CASE ReadBytesAtMostBody
  <2>1. pc = "body" /\ buffer_capacity' = buffer_capacity /\ (no_data => pc' = "ret")
    BY <1>1 DEF ReadBytesAtMostBody, Throw, Finish, InLoop
  <2>2. ~no_data => buffer_capacity > 0
    BY <2>1 DEF EInv, RInv, IInv, Typed, Control, BufferOK
  <2>. QED
    BY <2>1, <2>2 DEF Fed, Place
<1>2. CASE Take
  BY <1>2 DEF Take, Fed, Place
<1>3. CASE ~ReadBytesAtMostBody /\ ~Take
  <2>1. UNCHANGED <<call, buffer_capacity>>
    BY <1>3 DEF Step, ReadIntoBuffer, ReadIntoCaller, ReadFails, FillReturn, RefillReturn,
       BulkReturn, WholeReturn, AtEofReturn, ByteReturn, ReadBytesBody, ReadBytesMore,
       ReadBytesAtMostMore, DrainMore, SeekMore, InLoop, memory
  <2>2. call.loop = "at_most" => (Place' = "more" => Place = "more")
    BY <1>3 DEF Step, ReadIntoBuffer, ReadIntoCaller, ReadFails, FillReturn, RefillReturn,
       BulkReturn, WholeReturn, AtEofReturn, ByteReturn, ReadBytesBody, ReadBytesMore,
       ReadBytesAtMostMore, DrainMore, SeekMore, Throw, Finish, Place
  <2>. QED
    BY <2>1, <2>2 DEF EInv, Fed
<1>. QED
  BY <1>1, <1>2, <1>3

LEMMA NextFed == EInv /\ [Next]_vars => Fed'
<1>1. ASSUME EInv, World \/ UNCHANGED vars PROVE Fed'
  BY <1>1 DEF World, vars, frame, memory, EInv, Fed, Place
<1>. QED
  BY <1>1, CallFed, StepFed DEF Next

LEMMA InitEInv == Init => EInv
<1> SUFFICES ASSUME Init PROVE EInv
  OBVIOUS
<1>1. pc = "idle" /\ eof_indicator = FALSE
  BY DEF Init
<1>2. Indicated /\ AnswersAboutTheEnd /\ Sized /\ Fed
  BY <1>1 DEF Indicated, AnswersAboutTheEnd, ShortReadsMeetTheEnd, Sized, Still, Fed, Place
<1>. QED
  BY <1>2, InitMaps, InitWInv DEF EInv

LEMMA NextEInv == EInv /\ [Next]_vars => EInv'
BY NextRInv, NextWInv, NextIndicated, NextAnswers, NextSized, NextFed DEF EInv

(* For any files, a short count of read_bytes_at_most() means the end: a   *)
(* read(2) asked for more has given nothing, not beyond the position,      *)
(* nothing is left in the buffer, and eof_passed() says so unless the call *)
(* came at the end already (IFile.hpp:461-481).  A count of the kernel     *)
(* that is merely short never does it.  Only a buffer of no bytes gives    *)
(* nothing anywhere.                                                       *)
THEOREM ShortReads == Spec => []ShortReadsMeetTheEnd
<1>1. EInv => ShortReadsMeetTheEnd
  BY DEF EInv, AnswersAboutTheEnd
<1>. QED
  BY <1>1, InitEInv, NextEInv, PTL DEF Spec

-----------------------------------------------------------------------------
(* read_bytes() and read_bytes_to_end() return everything, to an object    *)
(* that opens one file only.                                               *)

FInv == PInv /\ EInv /\ WholeReadsAreComplete

Whole == {"read_bytes_all", "read_bytes_to_end"}

LEMMA OtherWhole ==
  ASSUME pc' # "ret" \/ outcome' # "ok" \/ call'.op \notin Whole
  PROVE  WholeReadsAreComplete'
BY DEF WholeReadsAreComplete, Whole

LEMMA WholeReturnWhole == ASSUME FInv, WholeReturn PROVE WholeReadsAreComplete'
<1>1. /\ pc = "whole" /\ UNCHANGED <<file_size, call, out, zero_at>>
      /\ outcome' = "OSReportedIncorrectFileSize" \/ got = file_size
  BY DEF WholeReturn, InLoop, handle, Throw, Finish
<1>2. Len(out) = got /\ call.start = 0 /\ got \in Nat
  BY <1>1, Numbers2 DEF FInv, EInv, RInv, Shape
<1>3. got = file_size => call.start + Len(out) = file_size /\ file_size # NotRegular
  BY <1>2 DEF NotRegular
<1>. QED
  BY <1>1, <1>3 DEF WholeReadsAreComplete

(* The bytes left to deliver were counted from the size.                   *)
LEMMA ExactWhole ==
  ASSUME FInv, pc \notin Still, Kind \in Exact, Len(out') = call.arg,
         UNCHANGED <<file_size, call>>
  PROVE  WholeReadsAreComplete'
<1>1. CASE Kind = <<"read_bytes_to_end", "exact">>
  <2>1. file_size \in Nat /\ call.arg = file_size - call.start /\ call.start \in Nat
    BY <1>1, Numbers2, Numbers DEF FInv, EInv, Sized
  <2>2. call.start + Len(out') = file_size /\ file_size # NotRegular
    BY <2>1 DEF NotRegular
  <2>. QED
    BY <2>2 DEF WholeReadsAreComplete
<1>2. CASE Kind = <<"read_bytes", "exact">>
  BY <1>2, OtherWhole DEF Kind, Whole
<1>. QED
  BY <1>1, <1>2 DEF Exact

LEMMA BulkReturnWhole == ASSUME FInv, BulkReturn PROVE WholeReadsAreComplete'
<1>1. /\ pc = "bulk" /\ UNCHANGED <<file_size, call, out>>
      /\ outcome' = "UnexpectedEOF" \/ got >= left
  BY DEF BulkReturn, InLoop, handle, Throw, Finish
<1>2. /\ Kind \in Exact /\ Len(out) + left = call.arg + got /\ got + want = left
      /\ want \in Nat /\ got \in Nat /\ Len(out) \in Nat /\ call.arg \in Int
  BY <1>1, Argument, Numbers DEF FInv, EInv, RInv, Shape, CInv, Transfers
<1>3. got >= left => Len(out) = call.arg
  BY <1>2
<1>. QED
  BY <1>1, <1>2, <1>3, ExactWhole, OtherWhole DEF Still

LEMMA ReadBytesLoopWhole ==
  ASSUME FInv, ReadBytesBody \/ ReadBytesMore
  PROVE  WholeReadsAreComplete'
<1>1. /\ pc \in {"body", "more"} /\ call.loop = "exact" /\ UNCHANGED <<fd, file_size, call, lost>>
      /\ \/ pc' # "ret" \/ outcome' \in {"UnexpectedEOF", "AttemptToReadAClosedFile"}
         \/ CopyThenRefill
  BY DEF ReadBytesBody, ReadBytesMore, LargeRead, FhRead, Throw, Finish, InLoop, handle
<1>2. Kind \in Exact
  BY <1>1, SoFar DEF FInv, EInv, RInv, Shape, Kind, AskFirst, GoOn, Exact, AtMost
<1>3. CASE CopyThenRefill
  <2>1. pc' = "ret" => \/ Len(out') = call.arg
                       \/ outcome' = "AttemptToReadAClosedFile"
    BY <1>1, <1>2, <1>3, Copies DEF FInv, EInv
  <2>. QED
    BY <1>1, <1>2, <2>1, ExactWhole, OtherWhole DEF Still
<1>. QED
  BY <1>1, <1>3, OtherWhole

(* A stream has been read until it ended.                                  *)
LEMMA DrainMoreWhole == ASSUME FInv, DrainMore PROVE WholeReadsAreComplete'
<1>1. /\ pc = "more" /\ call.loop = "drain"
      /\ UNCHANGED <<fd, file_size, zero_at, buffer_capacity, call, lost>>
      /\ \/ pc' # "ret" \/ outcome' = "AttemptToReadAClosedFile"
         \/ no_data /\ UNCHANGED out
  BY DEF DrainMore, DrainThenRefill, HasNoDataLeft, FhRead, Throw, Finish, InLoop, handle
<1>2. CASE no_data /\ UNCHANGED out
  <2>1. file_size = NotRegular
    BY <1>1 DEF FInv, EInv, Sized, Still
  <2>2. buffer_pos = 0 /\ buffer_size = 0 /\ (is_eof_reached \/ buffer_capacity = 0)
    BY <1>1, <1>2 DEF FInv, EInv, WInv, Ends, Emptied
  <2>3. CASE ~is_eof_reached
    <3>1. file_size' = NotRegular /\ buffer_capacity' = 0
      BY <1>1, <2>1, <2>2, <2>3
    <3>. QED
      BY <3>1 DEF WholeReadsAreComplete
  <2>4. CASE is_eof_reached
    <3>1. fd # NoFile /\ zero_at \in 0 .. off
      BY <2>4 DEF FInv, EInv, WInv, Ends, Flagged
    <3>2. fd \in streams /\ zero_at = off
      BY <2>1, <3>1, Numbers2 DEF FInv, EInv, PInv, WInv, Cached, Dry
    <3>3. ~torn => off = call.start + Len(out)
      <4>1. ~torn => tell = call.start + Len(out) /\ off = file_pos_of_buffer_start + buffer_size
        BY <1>1, SoFar, Resting1, Numbers2 DEF FInv, EInv
      <4>. QED
        BY <2>2, <4>1, Numbers2 DEF tell
    <3>4. torn' = torn
      BY <1>1 DEF torn
    <3>. QED
      BY <1>1, <1>2, <2>1, <3>2, <3>3, <3>4 DEF WholeReadsAreComplete
  <2>. QED
    BY <2>3, <2>4
<1>. QED
  BY <1>1, <1>2, OtherWhole

LEMMA CallWhole == ASSUME FInv, Call PROVE WholeReadsAreComplete'
<1>1. CASE ReadBytesAll \/ ReadBytesToEnd
  BY <1>1, ReadBytesAllShape, ReadBytesToEndShape, OtherWhole DEF FInv, EInv
<1>2. CASE ~(ReadBytesAll \/ ReadBytesToEnd)
  <2>1. call'.op \notin Whole
    BY <1>2 DEF Call, AtEofCall, PeekByte, ReadByte, ReadBytes, ReadBytesAtMost, CallAtEof, Seek,
       SeekNegative, SeekWithinBuffer, SeekOutsideBuffer, Open, Close, SetBufferSize, GetFileSize,
       Begin, Whole
  <2>. QED
    BY <2>1, OtherWhole
<1>. QED
  BY <1>1, <1>2

LEMMA StepWhole == ASSUME FInv, Step PROVE WholeReadsAreComplete'
<1>1. CASE ReadIntoBuffer \/ ReadIntoCaller \/ ReadFails \/ FillReturn \/ Take
  <2>1. pc' # "ret" \/ outcome' = "IOError"
    BY <1>1, Numbers2 DEF ReadIntoBuffer, ReadIntoCaller, ReadFails, FillReturn, Take, Finish, frame,
       FInv, IInv, Typed, PlaceOK
  <2>. QED
    BY <2>1, OtherWhole
<1>2. CASE RefillReturn
  <2>1. call'.op = "seek"
    BY <1>2 DEF RefillReturn, FInv, EInv, RInv, Shape, Kind
  <2>. QED
    BY <2>1, OtherWhole DEF Whole
<1>3. CASE AtEofReturn \/ ByteReturn
  <2>1. call'.op \in {"at_eof", "peek_byte", "read_byte"}
    BY <1>3 DEF AtEofReturn, ByteReturn, InLoop
  <2>. QED
    BY <2>1, OtherWhole DEF Whole
<1>4. CASE ReadBytesAtMostBody \/ ReadBytesAtMostMore \/ SeekMore
  <2>1. call' = call /\ pc \in {"body", "more"} /\ call.loop \in {"at_most", "skip"}
    BY <1>4 DEF ReadBytesAtMostBody, ReadBytesAtMostMore, SeekMore, InLoop
  <2>2. call.op \notin Whole
    BY <2>1, SoFar DEF FInv, EInv, RInv, Shape, Kind, AskFirst, GoOn, Exact, AtMost, Whole
  <2>. QED
    BY <2>1, <2>2, OtherWhole
<1>. QED
  BY <1>1, <1>2, <1>3, <1>4, WholeReturnWhole, BulkReturnWhole, ReadBytesLoopWhole, DrainMoreWhole
  DEF Step

LEMMA NextWhole == FInv /\ [Next]_vars => WholeReadsAreComplete'
<1>1. ASSUME FInv, World \/ UNCHANGED vars PROVE WholeReadsAreComplete'
  <2>1. UNCHANGED <<pc, outcome, call, out, lost, file_size, zero_at, buffer_capacity>>
    BY <1>1 DEF World, vars, frame, handle, memory
  <2>2. torn' = torn
    BY <2>1 DEF torn
  <2>3. WholeReadsAreComplete
    BY <1>1 DEF FInv
  <2>. QED
    BY <2>1, <2>2, <2>3 DEF WholeReadsAreComplete
<1>. QED
  BY <1>1, CallWhole, StepWhole DEF Next

-----------------------------------------------------------------------------
LEMMA InitFInv == OneFile /\ Init => FInv
<1> SUFFICES ASSUME OneFile, Init PROVE FInv
  OBVIOUS
<1>1. pc = "idle"
  BY DEF Init
<1>2. WholeReadsAreComplete
  BY <1>1 DEF WholeReadsAreComplete
<1>. QED
  BY <1>2, InitPInv, InitEInv DEF FInv

LEMMA NextFInv == FInv /\ [Next]_vars => FInv'
BY NextPInv, NextEInv, NextWhole DEF FInv

LEMMA FInvariance == OneFile /\ Spec => []FInv
BY InitFInv, NextFInv, PTL DEF Spec

(* An object that opens one file, again and again: the sticky flag is set  *)
(* only after a read has met the end, the position is never beyond the end *)
(* (seek() compares the target with the size, and the file only grows),    *)
(* and when at_eof() says false there is a byte to take.                   *)
THEOREM EofIsBacked == OneFile /\ Spec => []EofIsBackedByARead
<1>1. FInv => EofIsBackedByARead
  <2> SUFFICES ASSUME FInv PROVE EofIsBackedByARead
    OBVIOUS
  <2>1. /\ is_eof_reached => zero_at \in 0 .. off
        /\ eof_indicator => is_eof_reached
        /\ pc = "ret" /\ call.op = "at_eof" /\ outcome = "false" => Available > 0
    BY DEF FInv, EInv, WInv, Ends, Flagged, Indicated, AnswersAboutTheEnd
  <2>2. ~torn /\ pc \in {"idle", "ret"} /\ fd # NoFile => tell <= size[fd]
    <3>1. ~torn /\ pc \in {"idle", "ret"} => off = file_pos_of_buffer_start + buffer_size
      BY Numbers2 DEF FInv, CInv, Coherent
    <3>2. fd # NoFile => off <= size[fd] /\ size[fd] \in Nat
      BY Numbers2 DEF FInv, PInv, Inside
    <3>. QED
      BY <3>1, <3>2, Numbers2 DEF FInv, tell
  <2>. QED
    BY <2>1, <2>2 DEF EofIsBackedByARead
<1>. QED
  BY <1>1, FInvariance, PTL

(* Nor does the assert() of has_no_data_left() (IFile.hpp:52) ever fail:   *)
(* no seek leaves the position behind the window.                          *)
THEOREM AssertHolds == OneFile /\ Spec => []NoAssertionFails
<1>1. FInv => NoAssertionFails
  BY DEF FInv, PInv, Inside, NoAssertionFails
<1>. QED
  BY <1>1, FInvariance, PTL

(* And read_bytes() and read_bytes_to_end() return everything up to the    *)
(* size of a regular file, or to the end of a stream (IFile.hpp:413-459),  *)
(* from which a buffer of no bytes gives nothing.                          *)
THEOREM WholeReads == OneFile /\ Spec => []WholeReadsAreComplete
<1>1. FInv => WholeReadsAreComplete
  BY DEF FInv
<1>. QED
  BY <1>1, FInvariance, PTL

=============================================================================
