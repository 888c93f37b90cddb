----------------------------- MODULE SharedFile -----------------------------
(***************************************************************************)
(* notification-api and notification-worker on one file, as                *)
(* docker-compose.yml deploys them.  Each opens the file once, works in a  *)
(* memory of its own and saves the whole of it; neither locks the file nor *)
(* reads it again.  The api is Delivery as it stands; the worker is a      *)
(* second instance, without clients and receipts, that shares the file,    *)
(* the time and the history of sends.                                      *)
(***************************************************************************)
EXTENDS Delivery

VARIABLES
  wNotifications, wIdempotency, wReceipts,   \* the worker's Store.data
  wPtr, wCalls, wBoot, wTokens, wCanceled

apiMemory    == <<notifications, idempotency, receipts, ptr, calls, boot, tokens,
                  canceled>>
workerMemory == <<wNotifications, wIdempotency, wReceipts, wPtr, wCalls, wBoot,
                  wTokens, wCanceled>>

W == INSTANCE Delivery WITH
       notifications <- wNotifications, idempotency <- wIdempotency,
       receipts <- wReceipts, ptr <- wPtr, calls <- wCalls, boot <- wBoot,
       tokens <- wTokens, canceled <- wCanceled

SharedInit == Init /\ W!Init

(* main of notification-worker: open the file, enqueue what is queued, run  *)
(* the dispatcher.  W!Crash is its start or restart at any time.            *)
WorkerStep ==
  \/ \E id \in Ids, p \in Ptrs : W!Recover(id, p)
  \/ \E p \in Ptrs : W!Dequeue(p) \/ W!TimerFires(p) \/ W!Worker(p)
  \/ W!Refill \/ W!Crash

SharedNext ==
  \/ Next /\ UNCHANGED workerMemory
  \/ WorkerStep /\ UNCHANGED apiMemory

SharedSpec == SharedInit /\ [][SharedNext]_<<vars, workerMemory>>
=============================================================================
