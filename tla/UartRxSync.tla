------------------------------- MODULE UartRxSync -------------------------------
(***************************************************************************)
(* protocol/UartRxSync: a receiver of frames of one length that begin with *)
(* one header.  It searches the header byte by byte in a window that runs  *)
(* around the first bytes of the buffer, receives the rest of that frame   *)
(* by DMA, and from then on whole frames by circular DMA, each of which    *)
(* must begin with the header.  The UART's interrupts do not nest.  The    *)
(* DMA goes on while a frame is decoded, in the same buffer.               *)
(***************************************************************************)
EXTENDS Naturals, Sequences

CONSTANTS
  Bytes,     \* what a byte can be
  Header,    \* header()
  Data,      \* what a byte of a payload can be
  FrameLen,  \* the length of a frame, its header included
  MaxNoise   \* bound: disturbances of the stream

HeaderLen == Len(Header)

ASSUME UartAssumption ==
  /\ Header \in Seq(Bytes) /\ HeaderLen > 0
  /\ Data \subseteq Bytes
  /\ FrameLen \in Nat /\ FrameLen > HeaderLen
  /\ MaxNoise \in Nat

VARIABLES
  rx,           \* rx_buffer_
  hdrIdx,       \* hdr_idx_
  state,        \* state_
  hal,          \* the reception the HAL was asked for
  irq,          \* it is complete, and receiveCallback() still to be called
  isr,          \* "decode" while the callback stands before _decode(), else "none"
  lag,          \* bytes that came since the callback was due, while it is not over
  frame,        \* the payload the sender is sending
  atByte,       \* how many bytes of the frame it has sent
  withHeader,   \* DecodeWithHeader
  noise,        \* disturbances so far
  last,         \* ghost: the payload of the latest frame that was sent to its end
  whole,        \* ghost: nothing disturbed the present frame so far
  interrupted,  \* ghost: something did since the latest header was found
  missed        \* ghost: frames sent undisturbed since one was decoded

receiver == <<rx, hdrIdx, state, withHeader>>
line     == <<frame, atByte, last, whole>>
uartVars == <<receiver, hal, irq, isr, lag, line, noise, interrupted, missed>>

BufferPlaces == 0 .. (FrameLen - 1)
PayloadLen   == FrameLen - HeaderLen

(* Payloads no part of which, with the headers around, looks like a header. *)
HeaderAt(s, i) == SubSeq(s, i + 1, i + HeaderLen) = Header

Payloads ==
  {p \in [1 .. PayloadLen -> Data] :
     \A i \in 1 .. (FrameLen - 1) : ~HeaderAt(Header \o p \o Header, i)}

Payload == [i \in 1 .. PayloadLen |-> rx[HeaderLen + i - 1]]

-----------------------------------------------------------------------------
(* The HAL.  A reception is refused while another one is on. *)

Ready == [mode |-> "ready", base |-> 0, len |-> 1, pos |-> 0]

ReceiveIT(h, slot) ==
  IF h = Ready THEN [mode |-> "it", base |-> slot, len |-> 1, pos |-> 0] ELSE h

ReceiveDMA(h, slot, n) ==
  IF h = Ready THEN [mode |-> "dma", base |-> slot, len |-> n, pos |-> 0] ELSE h

(* A byte comes.  Circular DMA begins again at its end; a byte nobody      *)
(* waits for is lost.                                                      *)
ByteComes(b) ==
  /\ rx' = IF hal = Ready THEN rx ELSE [rx EXCEPT ![hal.base + hal.pos] = b]
  /\ hal' = IF hal.mode = "dma" THEN [hal EXCEPT !.pos = (hal.pos + 1) % hal.len] ELSE Ready
  /\ irq' = (irq \/ (hal # Ready /\ hal.pos + 1 = hal.len))
  /\ lag' = IF irq \/ isr = "decode" THEN lag + 1 ELSE 0
  /\ UNCHANGED <<hdrIdx, state, isr, withHeader>>

UartInit ==
  /\ rx \in [BufferPlaces -> {b \in Bytes : \A i \in 1 .. HeaderLen : Header[i] # b}]
  /\ hdrIdx = 0 /\ state = "Stopped" /\ withHeader \in BOOLEAN
  /\ hal = Ready /\ irq = FALSE /\ isr = "none" /\ lag = 0
  /\ frame \in Payloads /\ atByte = 0 /\ noise = 0
  /\ last = frame /\ whole = TRUE /\ interrupted = TRUE /\ missed = 0

-----------------------------------------------------------------------------
(* The sender and its line. *)

(* The interrupt is in time: before the next byte, or, with whole frames,  *)
(* before the payload is overwritten.                                      *)
InTime ==
  /\ irq => state = "DMAActive"
  /\ irq \/ isr = "decode" => lag < HeaderLen

Current == (Header \o frame)[atByte + 1]

Onward ==
  /\ atByte' = (atByte + 1) % FrameLen
  /\ IF atByte + 1 = FrameLen THEN frame' \in Payloads /\ last' = frame
                          ELSE UNCHANGED <<frame, last>>

Send ==
  /\ InTime
  /\ ByteComes(Current) /\ Onward
  /\ whole' = (whole \/ atByte + 1 = FrameLen)
  /\ missed' = IF whole /\ atByte + 1 = FrameLen /\ state # "Stopped" THEN missed + 1 ELSE missed
  /\ UNCHANGED <<noise, interrupted>>

Disturbed ==
  /\ noise < MaxNoise /\ noise' = noise + 1
  /\ interrupted' = TRUE /\ missed' = 0
  /\ whole' = (atByte' = 0)

(* A byte is lost on the line, *)
Drop ==
  /\ Onward
  /\ Disturbed
  /\ UNCHANGED <<receiver, hal, irq, isr, lag>>

(* or one comes that nobody sent, *)
Junk ==
  /\ \E b \in Bytes : ByteComes(b)
  /\ UNCHANGED <<frame, atByte, last>>
  /\ Disturbed

(* or one before the interrupt of those before it was served. *)
Late ==
  /\ ~InTime
  /\ ByteComes(Current) /\ Onward
  /\ Disturbed

-----------------------------------------------------------------------------
(* The application, and the callbacks. *)

(* Called once: reception has no stop, and a start resets nothing.         *)
StartReceive ==
  /\ state = "Stopped" /\ state' = "WaitHead"
  /\ hal' = ReceiveIT(hal, 0)
  /\ whole' = (atByte = 0)
  /\ UNCHANGED <<rx, hdrIdx, withHeader, irq, isr, lag>>
  /\ UNCHANGED <<frame, atByte, last, noise, interrupted, missed>>

(* errorHandler(): the line or the DMA reported an error.  Before the      *)
(* start nothing is received that could have one.                          *)
ErrorHandler ==
  /\ state # "Stopped" /\ isr = "none"
  /\ state' = "WaitHead" /\ hdrIdx' = 0
  /\ hal' = ReceiveIT(Ready, 0) /\ irq' = FALSE
  /\ UNCHANGED <<rx, withHeader, isr, lag, frame, atByte, last>>
  /\ Disturbed

(* check_header(): the window, its oldest byte behind hdr_idx_. *)
CheckHeader ==
  LET tail == HeaderLen - hdrIdx - 1
  IN  /\ \A i \in 0 .. (tail - 1) : rx[hdrIdx + 1 + i] = Header[i + 1]
      /\ \A i \in 0 .. hdrIdx : rx[i] = Header[tail + i + 1]

Callback(s) == irq /\ irq' = FALSE /\ isr = "none" /\ state = s

Same  == UNCHANGED <<withHeader, lag, line, noise, missed>>
SameB == UNCHANGED rx /\ Same

(* _decode() up to decode(), which runs while the DMA goes on. *)
BeginDecode ==
  /\ isr' = "decode"
  /\ rx' = [s \in BufferPlaces |-> IF withHeader /\ s < HeaderLen THEN Header[s + 1] ELSE rx[s]]

(* The fault LeftOut: a frame that does not begin with the header is only left out. *)
LeftOut ==
  /\ Callback("DMAActive") /\ ~CheckHeader
  /\ UNCHANGED <<state, hdrIdx, hal, isr, interrupted>> /\ SameB

(* A whole frame that does not begin with the header. *)
HeaderError ==
  /\ Callback("DMAActive") /\ ~CheckHeader
  /\ state' = "WaitHead" /\ hdrIdx' = 0
  /\ hal' = ReceiveIT(Ready, 0)
  /\ UNCHANGED <<isr, interrupted>> /\ SameB

FrameReceived ==
  /\ Callback("DMAActive") /\ CheckHeader
  /\ BeginDecode
  /\ UNCHANGED <<state, hdrIdx, hal, interrupted>> /\ Same

Found == rx[hdrIdx] = Header[HeaderLen] /\ CheckHeader

HeaderFound ==
  /\ Callback("WaitHead") /\ Found
  /\ hal' = ReceiveDMA(hal, HeaderLen, PayloadLen)
  /\ state' = "Receiving" /\ interrupted' = ~(whole /\ atByte = HeaderLen)
  /\ UNCHANGED <<isr, hdrIdx>> /\ SameB

NextByte ==
  /\ Callback("WaitHead") /\ ~Found
  /\ hdrIdx' = (hdrIdx + 1) % HeaderLen
  /\ hal' = ReceiveIT(hal, (hdrIdx + 1) % HeaderLen)
  /\ UNCHANGED <<isr, state, interrupted>> /\ SameB

(* The fault NotAborted: the reception of the first payload is not aborted. *)
NotAborted ==
  /\ Callback("Receiving")
  /\ hal' = ReceiveDMA(hal, 0, FrameLen)
  /\ state' = "DMAActive"
  /\ BeginDecode
  /\ UNCHANGED <<hdrIdx, interrupted>> /\ Same

(* The first frame is complete: whole frames from now on. *)
FirstReceived ==
  /\ Callback("Receiving")
  /\ hal' = ReceiveDMA(Ready, 0, FrameLen)
  /\ state' = "DMAActive"
  /\ BeginDecode
  /\ UNCHANGED <<hdrIdx, interrupted>> /\ Same

(* _decode() *)
Decode ==
  /\ isr = "decode" /\ isr' = "none"
  /\ missed' = IF Payload = last THEN 0 ELSE missed
  /\ UNCHANGED <<receiver, hal, irq, lag, line, noise, interrupted>>

UartNext ==
  \/ Send \/ Drop \/ Junk \/ Late
  \/ StartReceive \/ ErrorHandler
  \/ HeaderError \/ FrameReceived \/ HeaderFound \/ NextByte \/ FirstReceived \/ Decode

UartSpec == UartInit /\ [][UartNext]_uartVars

-----------------------------------------------------------------------------
(* The types, and the buffer's bounds: no reception goes past its end. *)
UartTypeOK ==
  /\ rx \in [BufferPlaces -> Bytes] /\ hdrIdx \in 0 .. (HeaderLen - 1)
  /\ state \in {"Stopped", "WaitHead", "Receiving", "DMAActive"}
  /\ hal.mode \in {"ready", "it", "dma"}
  /\ hal.len \in {1, PayloadLen, FrameLen}
  /\ hal.base + hal.len <= FrameLen /\ hal.pos \in 0 .. (hal.len - 1)
  /\ irq \in BOOLEAN /\ isr \in {"none", "decode"} /\ lag \in Nat
  /\ frame \in Payloads /\ last \in Payloads /\ atByte \in BufferPlaces
  /\ {withHeader, whole, interrupted} \subseteq BOOLEAN
  /\ noise \in 0 .. MaxNoise /\ missed \in Nat

(* decode() gets the frame that ended last, whole, although the next one   *)
(* already arrives in the same buffer and the window keeps old bytes: as   *)
(* long as nothing disturbed the stream since the header was found.        *)
DecodesWhole == isr = "decode" /\ ~interrupted => Payload = last

(* No byte of the header is there twice, or in a payload. *)
HeaderStandsOut ==
  \A i \in 1 .. HeaderLen :
    Header[i] \notin Data /\ \A j \in 1 .. HeaderLen : Header[i] = Header[j] => i = j

(* Whatever disturbed the stream, of five undisturbed frames in a row one  *)
(* is decoded, when the header cannot be mistaken: a false one costs the   *)
(* rest of a first frame, a whole frame, a late look at it, and the frame  *)
(* in which the search begins again.                                       *)
Resyncs == HeaderStandsOut => missed <= 4

(* What the comment at UartRxSync.hpp:101 says: a whole frame that does    *)
(* not begin with the header means that the stream was interrupted or      *)
(* taken apart wrongly.  The header of a clean stream is looked for in the *)
(* rotation that the search ended with.                                    *)
HeaderErrorMeansInterrupted == [][HeaderError => interrupted]_uartVars
=============================================================================
