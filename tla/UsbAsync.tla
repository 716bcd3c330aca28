------------------------------- MODULE UsbAsync -------------------------------
(***************************************************************************)
(* Asynchronous reading from the dongle (librtlsdr.c: rtlsdr_read_async,   *)
(* _libusb_callback, rtlsdr_cancel_async, rtlsdr_close).                   *)
(*                                                                         *)
(* A reading thread submits transfers and hands the completed ones to the  *)
(* user's callback in the order of a list; libusb completes transfers in   *)
(* whatever thread handles its events; other threads cancel and close.     *)
(* What they share is under async_mutex, whose holder matters only while   *)
(* the reader keeps it from one step to the next; every other action is    *)
(* what one thread does under the mutex.  dev_lost is under dev_mutex.     *)
(***************************************************************************)
EXTENDS Integers, Sequences, SequencesExt, FiniteSetsExt

CONSTANTS
  xfer_buf_num,
  MaxReads,      \* bound: calls of rtlsdr_read_async
  Faults         \* what may happen, of: the device is unplugged; it is lost, or
                 \* is read again, while a thread closes it; libusb cannot
                 \* handle events; there is no memory for the buffers

ASSUME UsbAssumption ==
  /\ xfer_buf_num \in Nat \ {0}
  /\ Faults \subseteq {"unplugged", "lost in close", "read in close", "no events", "no memory"}

Transfers == 1..xfer_buf_num
Blocks == 2 * xfer_buf_num           \* blocks are numbered modulo this

VARIABLES
  xfer,      \* XFER_IDLE, SUBMITTED, CANCELING, COMPLETED_OK, _ERROR, _DEV_LOST
  list,      \* xfer_head .. xfer_tail
  flight,    \* transfers libusb has, in order; those it was told to cancel
  status,    \* async_status
  errors,    \* xfer_errors
  reader,    \* the thread in rtlsdr_read_async: at; the transfer it handles;
             \* how many it submitted; dev_lost (the local one); calls so far
  holder,    \* of async_mutex: "reader" or "nobody"
  closer,    \* the thread in rtlsdr_close: "out", "wait", "deinit", "done",
             \* or "never": nobody will close
  device,    \* plugged; dev_lost; allocated: dev->xfer; freed: free(dev)
  stream     \* number of the next block; in each transfer; of the last one
             \* handed to the callback

vars == <<xfer, list, flight, status, errors, reader, holder, closer, device, stream>>

Init == /\ xfer = [x \in Transfers |-> "IDLE"]
        /\ list = << >>
        /\ flight = [order |-> << >>, cancelled |-> {}]
        /\ status = "INACTIVE"
        /\ errors = 0
        /\ reader = [at |-> "out", x |-> 1, lost |-> FALSE, calls |-> 0]
        /\ holder = "nobody"
        /\ closer \in {"out", "never"}
        /\ device = [plugged |-> TRUE, dev_lost |-> FALSE, allocated |-> FALSE, freed |-> FALSE]
        /\ stream = [next |-> 0, block |-> [x \in Transfers |-> 0], last |-> Blocks - 1]

InFlight == ToSet(flight.order)
CanBeLost == "lost in close" \in Faults \/ closer = "never"
Free == holder = "nobody" /\ ~device.freed

-----------------------------------------------------------------------------
(* rtlsdr_read_async *)

\* The device is there and nobody else reads; then the buffers are allocated.
ReadAsync ==
  /\ reader.at = "out"
  /\ reader.calls < MaxReads
  /\ closer = "wait" => "read in close" \in Faults
  /\ Free
  /\ ~device.dev_lost
  /\ status = "INACTIVE"
  /\ status' = "RUNNING"
  /\ \/ /\ reader' = [reader EXCEPT !.at = "submit", !.x = 1, !.lost = FALSE, !.calls = @ + 1]
        /\ device' = [device EXCEPT !.allocated = TRUE]
     \/ /\ "no memory" \in Faults
        /\ reader' = [reader EXCEPT !.calls = @ + 1]
        /\ UNCHANGED device
  /\ xfer' = [x \in Transfers |-> "IDLE"]
  /\ UNCHANGED <<list, flight, errors, holder, closer, stream>>

\* libusb_submit_transfer, which may always fail.  The error of a lost device
\* is compared with a constant of another enumeration and never recognized.
Submit(x) ==
  \/ /\ device.plugged
     /\ xfer' = [xfer EXCEPT ![x] = "SUBMITTED"]
     /\ flight' = [flight EXCEPT !.order = Append(@, x)]
     /\ UNCHANGED status
  \/ /\ xfer' = [xfer EXCEPT ![x] = "COMPLETED_ERROR"]
     /\ status' = "CANCEL_REQUEST"
     /\ UNCHANGED flight

\* The first submission of all buffers, under dev_mutex only; the loop ends
\* at the first error.
SubmitAll ==
  /\ reader.at = "submit"
  /\ Submit(reader.x)
  /\ reader' = IF reader.x < xfer_buf_num /\ xfer'[reader.x] = "SUBMITTED"
               THEN [reader EXCEPT !.x = @ + 1] ELSE [reader EXCEPT !.at = "lock"]
  /\ UNCHANGED <<list, errors, holder, closer, device, stream>>

Lock == /\ reader.at = "lock"
        /\ holder = "nobody"
        /\ holder' = "reader"
        /\ reader' = [reader EXCEPT !.at = "loop"]
        /\ UNCHANGED <<xfer, list, flight, status, errors, closer, device, stream>>

\* while (async_status != RTLSDR_INACTIVE): wait for events if there is
\* nothing to do.
Loop ==
  /\ reader.at = "loop"
  /\ status # "INACTIVE"
  /\ IF list = << >> /\ status # "CANCEL_REQUEST"
     THEN reader' = [reader EXCEPT !.at = "events", !.lost = FALSE] /\ holder' = "nobody"
     ELSE reader' = [reader EXCEPT !.at = "handle", !.lost = FALSE] /\ UNCHANGED holder
  /\ UNCHANGED <<xfer, list, flight, status, errors, closer, device, stream>>

\* libusb_handle_events_timeout_completed returns: a transfer was completed,
\* somebody set async_wakeup, or a second is over; or it fails.
HandleEvents ==
  /\ reader.at = "events"
  /\ holder = "nobody"
  /\ holder' = "reader"
  /\ \/ reader' = [reader EXCEPT !.at = "handle"]
     \/ reader' = [reader EXCEPT !.at = "loop"]          \* a stray signal
     \/ "no events" \in Faults /\ reader' = [reader EXCEPT !.at = "free"]
  /\ UNCHANGED <<xfer, list, flight, status, errors, closer, device, stream>>

\* The first of the completed transfers.
TakeHead ==
  /\ reader.at = "handle"
  /\ list # << >>
  /\ list' = Tail(list)
  /\ reader' = [reader EXCEPT
       !.x = Head(list),
       !.lost = @ \/ xfer[Head(list)] = "COMPLETED_DEV_LOST",
       !.at = IF xfer[Head(list)] = "COMPLETED_OK" THEN "callback" ELSE "resubmit"]
  /\ holder' = IF xfer[Head(list)] = "COMPLETED_OK" THEN "nobody" ELSE holder
  /\ UNCHANGED <<xfer, flight, status, errors, closer, device, stream>>

\* The user's callback, without the mutex.
Callback ==
  /\ reader.at = "callback"
  /\ holder = "nobody"
  /\ holder' = "reader"
  /\ stream' = [stream EXCEPT !.last = stream.block[reader.x]]
  /\ reader' = [reader EXCEPT !.at = "resubmit"]
  /\ UNCHANGED <<xfer, list, flight, status, errors, closer, device>>

Resubmit ==
  /\ reader.at = "resubmit"
  /\ IF status = "RUNNING" /\ ~reader.lost THEN Submit(reader.x)
     ELSE UNCHANGED <<xfer, flight, status>>
  /\ reader' = [reader EXCEPT !.at = "handle"]
  /\ UNCHANGED <<list, errors, holder, closer, device, stream>>

\* Cancellation is complete when no transfer is still being cancelled.
StatusAfterCancel(states) ==
  IF \E x \in Transfers : states[x] = "CANCELING" THEN "CANCELING" ELSE "INACTIVE"

\* All are handled: act on a cancel request, see whether cancellation is
\* complete; a lost device is told of without async_mutex.
ActOnCancel ==
  /\ reader.at = "handle"
  /\ list = << >>
  /\ LET cancelled == {x \in Transfers : xfer[x] = "SUBMITTED"}
         states == [x \in Transfers |-> IF x \in cancelled THEN "CANCELING" ELSE xfer[x]]
     IN IF status = "CANCEL_REQUEST"
        THEN /\ xfer' = states
             /\ flight' = [flight EXCEPT !.cancelled = @ \cup (cancelled \cap InFlight)]
             /\ status' = StatusAfterCancel(states)
        ELSE /\ status' = IF status = "CANCELING" THEN StatusAfterCancel(xfer) ELSE status
             /\ UNCHANGED <<xfer, flight>>
  /\ IF reader.lost
     THEN holder' = "nobody" /\ reader' = [reader EXCEPT !.at = "lost"]
     ELSE UNCHANGED holder /\ reader' = [reader EXCEPT !.at = "loop"]
  /\ UNCHANGED <<list, errors, closer, device, stream>>

\* dev_lost is set under dev_mutex; then async_mutex is taken again.
TellLost == /\ reader.at = "lost"
            /\ device' = [device EXCEPT !.dev_lost = TRUE]
            /\ reader' = [reader EXCEPT !.at = "lock"]
            /\ UNCHANGED <<xfer, list, flight, status, errors, holder, closer, stream>>

\* The end: buffers and transfers are freed.
FreeBuffers == /\ \/ reader.at = "loop" /\ status = "INACTIVE"
                  \/ reader.at = "free"
               /\ device' = [device EXCEPT !.allocated = FALSE]
               /\ status' = "INACTIVE"
               /\ holder' = "nobody"
               /\ reader' = [reader EXCEPT !.at = "out"]
               /\ UNCHANGED <<xfer, list, flight, errors, closer, stream>>

-----------------------------------------------------------------------------
(* libusb *)

\* Faulty variant: completed transfers are put in front.
Pushed(x) == <<x>> \o list
Enqueued(x) == Append(list, x)

\* Faulty variant: what completes while it is cancelled keeps its status.
CancelingStays(x, result, many) ==
  IF xfer[x] = "CANCELING" THEN "CANCELING"
  ELSE IF result = "COMPLETED" THEN "COMPLETED_OK"
  ELSE IF many \/ result = "NO_DEVICE" THEN "COMPLETED_DEV_LOST"
  ELSE "COMPLETED_ERROR"

\* A cancelled transfer does not tell of the device.
StatusOf(x, result, many) ==
  IF result = "COMPLETED" THEN "COMPLETED_OK"
  ELSE IF /\ many \/ result = "NO_DEVICE"
          /\ ~(result = "CANCELLED" /\ xfer[x] = "CANCELING") THEN "COMPLETED_DEV_LOST"
  ELSE "COMPLETED_ERROR"

\* _libusb_callback: the i-th transfer is completed.  As many errors in a row as
\* there are transfers mean that the device is lost.
Complete(i, result) ==
  LET x == flight.order[i]
      n == IF result = "ERROR" THEN Min({errors + 1, xfer_buf_num})
           ELSE IF result = "COMPLETED" THEN 0 ELSE errors
      s == StatusOf(x, result, n >= xfer_buf_num)
  IN /\ Free
     /\ flight' = [order |-> RemoveAt(flight.order, i), cancelled |-> flight.cancelled \ {x}]
     /\ list' = Enqueued(x)
     /\ errors' = n
     /\ xfer' = [xfer EXCEPT ![x] = s]
     /\ status' = IF s = "COMPLETED_DEV_LOST" /\ status = "RUNNING" THEN "CANCEL_REQUEST" ELSE status
     /\ stream' = IF result = "COMPLETED"
                  THEN [stream EXCEPT !.next = (@ + 1) % Blocks, !.block[x] = stream.next]
                  ELSE stream
     /\ UNCHANGED <<reader, holder, closer, device>>

\* Data come in the order of the transfers; so do errors.
Transferred == /\ flight.order # << >>
               /\ device.plugged
               /\ \E result \in {"COMPLETED", "ERROR", "STALL"} :
                    /\ result = "ERROR" => CanBeLost
                    /\ Complete(1, result)
Cancelled == \E i \in DOMAIN flight.order :
               flight.order[i] \in flight.cancelled /\ Complete(i, "CANCELLED")
NoDevice == /\ ~device.plugged
            /\ \E i \in DOMAIN flight.order : Complete(i, "NO_DEVICE")

Unplug == /\ "unplugged" \in Faults
          /\ CanBeLost
          /\ device.plugged
          /\ device' = [device EXCEPT !.plugged = FALSE]
          /\ UNCHANGED <<xfer, list, flight, status, errors, reader, holder, closer, stream>>

-----------------------------------------------------------------------------
(* Other threads *)

CancelAsync == /\ Free
               /\ status = "RUNNING"
               /\ status' = "CANCEL_REQUEST"
               /\ UNCHANGED <<xfer, list, flight, errors, reader, holder, closer, device, stream>>

\* rtlsdr_close: ask the reader to end and wait for it.
Close ==
  /\ closer = "out"
  /\ Free
  /\ IF status = "INACTIVE"
     THEN closer' = "deinit" /\ status' = "CLOSING"
     ELSE /\ closer' = "wait"
          /\ status' = IF status = "RUNNING" THEN "CANCEL_REQUEST" ELSE status
  /\ UNCHANGED <<xfer, list, flight, errors, reader, holder, device, stream>>

\* Faulty variant: the reader is not waited for.
CloseAtOnce == /\ closer = "wait"
               /\ Free
               /\ closer' = "deinit"
               /\ status' = "CLOSING"
               /\ UNCHANGED <<xfer, list, flight, errors, reader, holder, device, stream>>

CloseWaited == /\ closer = "wait"
               /\ Free
               /\ status = "INACTIVE"
               /\ closer' = "deinit"
               /\ status' = "CLOSING"
               /\ UNCHANGED <<xfer, list, flight, errors, reader, holder, device, stream>>

\* Switch off, release, free(dev).
Deinit == /\ closer = "deinit"
          /\ closer' = "done"
          /\ device' = [device EXCEPT !.freed = TRUE]
          /\ UNCHANGED <<xfer, list, flight, status, errors, reader, holder, stream>>

-----------------------------------------------------------------------------
Reader == \/ SubmitAll \/ Lock \/ Loop \/ HandleEvents \/ TakeHead \/ Callback \/ Resubmit
          \/ ActOnCancel \/ TellLost \/ FreeBuffers
Libusb == Transferred \/ Cancelled \/ NoDevice
Closing == CloseWaited \/ Deinit

Next == ReadAsync \/ Reader \/ Libusb \/ Unplug \/ CancelAsync \/ Close \/ Closing

Spec == Init /\ [][Next]_vars

\* The reader runs, its callback returns and a wait ends with the timeout (a
\* stray signal does not come for ever); libusb completes what is cancelled
\* and what a lost device has left.  Who waits for the mutex gets it in the end,
\* though the reader holds it between its steps: strong fairness.
Fairness == /\ WF_vars(Reader) /\ SF_vars(HandleEvents /\ reader'.at = "handle")
            /\ SF_vars(Cancelled) /\ SF_vars(NoDevice) /\ SF_vars(Closing)

FairSpec == Spec /\ Fairness
-----------------------------------------------------------------------------
(* Properties *)

\* Blocks reach the callback in the order in which they were received; none
\* is left out or handed over twice while transfers complete, fail and are
\* submitted again.
DeliversInOrder ==
  [][stream'.last # stream.last => stream'.last = (stream.last + 1) % Blocks]_vars

\* No transfer is freed that libusb still has.
NoFreedTransfer == InFlight # {} => device.allocated

\* Nobody works on the device when it has been freed ("block until all async
\* operations have been completed", librtlsdr.c:1871).
NoUseAfterClose == device.freed => reader.at = "out"

\* Reading that is cancelled, by a thread or by the loss of the device, ends.
CancelReturns == (status \in {"CANCEL_REQUEST", "CANCELING"}) ~> (reader.at = "out")

\* rtlsdr_close returns.
CloseReturns == (closer = "wait") ~> (closer = "done")

\* Neither the device nor a transfer is freed under somebody who uses it.
NoUseAfterFree == NoUseAfterClose /\ NoFreedTransfer

\* Both threads come out again.
ReaderAndCloserReturn == CancelReturns /\ CloseReturns

\* When the device is lost while it is read the caller can know.
LossNoticed == (~device.plugged /\ status = "RUNNING") ~> device.dev_lost
==============================================================================
