-------------------------------- MODULE Codec --------------------------------
(***************************************************************************)
(* The framing protocol: the encoder (src/encoder.hpp, encoder.cpp), the   *)
(* buffers of two stream engines (src/stream_engine.cpp), and the decoder  *)
(* (src/decoder.hpp, decoder.cpp), which get and give any number of bytes  *)
(* at a time.  A byte is a number below Base; Base - 1 is the escape byte  *)
(* (0xff), and a long size takes LongSize bytes (8).                       *)
(***************************************************************************)
EXTENDS Integers, SequencesExt

CONSTANTS
  Base,        \* the number of byte values
  LongSize,    \* bytes of a long size
  BufSize,     \* out_batch_size and in_batch_size
  MaxMsgSize,  \* options.maxmsgsize
  max_vsm_size, \* the largest message that needs no memory of its own
  Sizes,       \* sizes of messages
  NMsgs        \* bound: messages

VARIABLES
  msgs,        \* the messages that are sent: [size, flags], with flags
               \* 1 (more) and 2 (shared)
  avail,       \* how many of them are in the encoder's pipe by now
  enc,         \* encoder: [taken, bytes (write_pos, to_write), next]
  outbuf,      \* outpos, outsize
  wire,        \* bytes on their way
  inbuf,       \* inpos, insize
  dec,         \* decoder: [next, tmp (tmpbuf or data), to_read, size, flags],
               \* and the cause of its error
  got          \* the messages that the session has taken, with their data

vars == <<msgs, avail, enc, outbuf, wire, inbuf, dec, got>>

Esc == Base - 1
Data(m, n) == [j \in 1 .. n |-> (m + j) % Base]
Content(m) == [size |-> msgs[m].size, flags |-> msgs[m].flags % 2,
               data |-> Data(m, msgs[m].size)]

(* src/wire.hpp: put_uint64 and get_uint64, most significant byte first. *)
put_uint64(n) == [j \in 1 .. LongSize |-> (n \div Base ^ (LongSize - j)) % Base]
get_uint64(b) == FoldLeft(LAMBDA n, d : n * Base + d, 0, b)
-----------------------------------------------------------------------------
(* The encoder *)

(* flags () & ~msg_t::shared *)
SentFlags(m) == msgs[m].flags % 2

(* Mutant: a message of 254 bytes gets one byte of size. *)
Header_Short(m) ==
  LET size == msgs[m].size + 1 IN
    IF size <= Esc THEN <<size, SentFlags(m)>>
    ELSE <<Esc>> \o put_uint64(size) \o <<SentFlags(m)>>

(* message_ready: the size, with the byte of the flags, and the flags. *)
Header(m) ==
  LET size == msgs[m].size + 1 IN
    IF size < Esc THEN <<size, SentFlags(m)>>
    ELSE <<Esc>> \o put_uint64(size) \o <<SentFlags(m)>>

(* next: message_ready reads the next message, if there is one, and        *)
(* size_ready goes on with its data.                                       *)
EncStep(e) ==
  IF e.next = "size_ready"
  THEN [e EXCEPT !.bytes = Data(e.taken, msgs[e.taken].size),
                 !.next = "message_ready"]
  ELSE [e EXCEPT !.taken = @ + 1, !.bytes = Header(e.taken + 1),
                 !.next = "size_ready"]

(* get_data: the buffer is filled, or the rest of a large body is handed   *)
(* out in place (zero-copy).                                               *)
RECURSIVE get_data(_, _)
get_data(e, b) ==
  IF e.bytes = << >>
  THEN IF e.next = "message_ready" /\ e.taken = avail THEN <<e, b>>
       ELSE get_data(EncStep(e), b)
  ELSE IF b = << >> /\ Len(e.bytes) >= BufSize
  THEN <<[e EXCEPT !.bytes = << >>], e.bytes>>
  ELSE LET n == Min({Len(e.bytes), BufSize - Len(b)})
           f == [e EXCEPT !.bytes = SubSeq(@, n + 1, Len(@))]
           c == b \o SubSeq(e.bytes, 1, n)
       IN IF Len(c) = BufSize THEN <<f, c>> ELSE get_data(f, c)
-----------------------------------------------------------------------------
(* The decoder *)

next_step(d, n, next) == [d EXCEPT !.tmp = << >>, !.to_read = n, !.next = next]

decoding_error(d, why) == [d EXCEPT !.next = "error", !.cause = why]

(* A message of this size, or an error; mem: init_size () gets memory. *)
Sized(d, size, mem) ==
  IF size = 0 \/ size - 1 > MaxMsgSize THEN decoding_error(d, "size")
  ELSE IF size - 1 > max_vsm_size /\ ~mem THEN decoding_error(d, "memory")
  ELSE next_step([d EXCEPT !.size = size - 1], 1, "flags_ready")

one_byte_size_ready(d, mem) ==
  IF d.tmp[1] = Esc THEN next_step(d, LongSize, "eight_byte_size_ready")
  ELSE Sized(d, d.tmp[1], mem)

eight_byte_size_ready(d, mem) == Sized(d, get_uint64(d.tmp), mem)

flags_ready(d) == next_step([d EXCEPT !.flags = d.tmp[1] % 2], d.size,
                            "message_ready")

(* process_buffer: bytes are taken until the step has all of its own.      *)
(* message_ready writes the message to the session, which takes k more     *)
(* and then has no room (EAGAIN): the step is repeated later.              *)
(* Result: the decoder, the bytes left, the messages taken.                *)
RECURSIVE process_buffer(_, _, _, _)
process_buffer(d, b, k, mem) ==
  IF d.next = "error" THEN <<d, b, << >>>>
  ELSE IF d.to_read > 0
  THEN IF b = << >> THEN <<d, b, << >>>>
       ELSE LET n == Min({d.to_read, Len(b)})
            IN process_buffer(
                 [d EXCEPT !.tmp = @ \o SubSeq(b, 1, n), !.to_read = @ - n],
                 SubSeq(b, n + 1, Len(b)), k, mem)
  ELSE CASE d.next = "one_byte_size_ready" ->
              process_buffer(one_byte_size_ready(d, mem), b, k, mem)
         [] d.next = "eight_byte_size_ready" ->
              process_buffer(eight_byte_size_ready(d, mem), b, k, mem)
         [] d.next = "flags_ready" -> process_buffer(flags_ready(d), b, k, mem)
         [] d.next = "message_ready" ->
              IF k = 0 THEN <<d, b, << >>>>
              ELSE LET m == [size |-> d.size, flags |-> d.flags,
                             data |-> d.tmp]
                       r == process_buffer(
                              next_step(d, 1, "one_byte_size_ready"), b,
                              k - 1, mem)
                   IN <<r[1], r[2], <<m>> \o r[3]>>

(* Mutant: the whole message is asked for, though a part of it is there. *)
get_buffer_Whole(d) ==
  IF d.next = "message_ready" /\ d.size >= BufSize
  THEN [inplace |-> TRUE, size |-> d.size]
  ELSE [inplace |-> FALSE, size |-> BufSize]

(* get_buffer: how much to read from the connection, and whether directly  *)
(* into the message.                                                       *)
get_buffer(d) ==
  IF d.to_read >= BufSize THEN [inplace |-> TRUE, size |-> d.to_read]
  ELSE [inplace |-> FALSE, size |-> BufSize]

(* process_buffer for bytes that were read into the message (zero-copy). *)
InPlace(d, b) == [d EXCEPT !.tmp = @ \o b, !.to_read = @ - Len(b)]
-----------------------------------------------------------------------------
Init ==
  /\ msgs \in [1 .. NMsgs -> [size : Sizes, flags : {0, 3}]]
  /\ avail = 0
  /\ enc = [taken |-> 0, bytes |-> << >>, next |-> "message_ready"]
  /\ outbuf = << >> /\ wire = << >> /\ inbuf = << >>
  /\ dec = next_step([next |-> "", tmp |-> << >>, to_read |-> 0, size |-> 0,
                      flags |-> 0, cause |-> ""], 1, "one_byte_size_ready")
  /\ got = << >>

(* The encoder's session has another message to read. *)
Arrive ==
  /\ avail < NMsgs /\ avail' = avail + 1
  /\ UNCHANGED <<msgs, enc, outbuf, wire, inbuf, dec, got>>

(* stream_engine_t::out_event: the connection takes n bytes. *)
OutEvent ==
  /\ LET r == IF outbuf = << >> THEN get_data(enc, << >>) ELSE <<enc, outbuf>>
     IN /\ r[2] # << >>
        /\ enc' = r[1]
        /\ \E n \in 1 .. Len(r[2]) :
             /\ wire' = wire \o SubSeq(r[2], 1, n)
             /\ outbuf' = SubSeq(r[2], n + 1, Len(r[2]))
  /\ UNCHANGED <<msgs, avail, inbuf, dec, got>>

(* stream_engine_t::in_event: up to n bytes are read when all that were    *)
(* read before have been processed.                                        *)
InEvent ==
  /\ dec.next # "error"
  /\ \E n \in 0 .. Min({get_buffer(dec).size, Len(wire)}), k \in 0 .. NMsgs,
        mem \in BOOLEAN :
       LET b == IF inbuf = << >> THEN SubSeq(wire, 1, n) ELSE inbuf
           r == IF inbuf = << >> /\ get_buffer(dec).inplace
                THEN process_buffer(InPlace(dec, b), << >>, k, mem)
                ELSE process_buffer(dec, b, k, mem)
       IN /\ inbuf # << >> => n = 0
          /\ wire' = SubSeq(wire, n + 1, Len(wire))
          /\ dec' = r[1] /\ inbuf' = r[2] /\ got' = got \o r[3]
  /\ UNCHANGED <<msgs, avail, enc, outbuf>>

Next == Arrive \/ OutEvent \/ InEvent

Spec == Init /\ [][Next]_vars
-----------------------------------------------------------------------------
(* Properties *)

Expected == [m \in 1 .. enc.taken |-> Content(m)]

(* However the stream is cut into writes, reads and attempts to pass a     *)
(* message on, the session gets the messages that were sent, with their    *)
(* `more' flag and data, in order; the decoder fails exactly at a message  *)
(* larger than maxmsgsize, or at one that there is no memory for; and when *)
(* no byte is left on the way, no message is.                              *)
RoundTrip ==
  /\ IsPrefix(got, Expected)
  /\ \A m \in 1 .. Len(got) : got[m].size <= MaxMsgSize
  /\ dec.next = "error" =>
       /\ Len(got) < NMsgs
       /\ msgs[Len(got) + 1].size >
            IF dec.cause = "memory" THEN max_vsm_size ELSE MaxMsgSize
  /\ (enc.bytes \o outbuf \o wire \o inbuf = << >> /\ enc.next = "message_ready"
      /\ dec.next = "one_byte_size_ready") => got = Expected
=============================================================================
