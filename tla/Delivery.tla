--------------------------------- MODULE Delivery --------------------------------
(***************************************************************************)
(* The alert router: one notice goes to every alert action in the database, *)
(* or to the administrators of the configuration while there is none.  A    *)
(* send is accepted, refused, or its answer is lost although the message    *)
(* arrived; the rows are read anew for every notice.  alert says where the  *)
(* notice is; the modules that send one set it to "list" and read how it    *)
(* went from "reached" or "missed".                                         *)
(***************************************************************************)
EXTENDS Integers, FiniteSets

CONSTANTS
    Rows,        \* alert actions there may be
    AdminRows    \* the administrators, as destinations, in the order they are tried

ASSUME DeliveryAssumption ==
    /\ Rows \union AdminRows \subseteq
          [id : Nat, type : {"telegram", "vkteams", "webhook", "unknown"}, addressed : BOOLEAN]
    /\ IsFiniteSet(Rows) /\ IsFiniteSet(AdminRows)
    /\ \A d \in AdminRows : d.type \in {"telegram", "vkteams"} /\ d.addressed
    /\ \A d, e \in Rows \union AdminRows : d.id = e.id => d = e

VARIABLES
    clients,     \* the chat clients that connected when the process started
    cancelled,   \* whether the context of the job is cancelled
    alert,       \* "none", "list", "send", "plain", then "reached", "missed" or "dropped"
    listed,      \* the destinations of this notice
    left,        \* those not tried yet
    delivered,   \* those counted as delivered
    (* history, read only by properties *)
    copies,      \* how often the notice arrived at each destination
    refused,     \* destinations that refused it, once or for good
    unsure       \* destinations it reached although an error came back

router == <<alert, listed, left, delivered, copies, refused, unsure>>

Destinations == Rows \union AdminRows

\* Deliver takes the rows in the order of their ids.
First(s) == CHOOSE d \in s : \A e \in s : d.id <= e.id

\* A chat has to have its client, and the row its address.
Usable(d) ==
    CASE d.type \in {"telegram", "vkteams"} -> d.type \in clients /\ d.addressed
      [] d.type = "webhook" -> TRUE
      [] OTHER -> FALSE

\* Administrators of a platform that did not connect are not tried.
Admins == {d \in AdminRows : d.type \in clients}

\* Telegram is sent to without the context.
Sends(d) == d.type = "telegram" \/ ~cancelled

DeliveryInit ==
    /\ clients \in SUBSET {"telegram", "vkteams"}
    /\ cancelled = FALSE
    /\ alert = "none" /\ listed = {} /\ left = {} /\ delivered = {}
    /\ copies = [d \in Destinations |-> 0] /\ refused = {} /\ unsure = {}

\* What is kept of a notice when the next one begins.
Fresh ==
    /\ listed' = {} /\ left' = {} /\ delivered' = {}
    /\ copies' = [d \in Destinations |-> 0] /\ refused' = {} /\ unsure' = {}

----
ListAlertActions(rows) ==
    /\ ~cancelled
    /\ listed' = IF rows = {} THEN Admins ELSE rows
    /\ left' = listed'
    /\ alert' = IF listed' = {} THEN "dropped" ELSE "send"
    /\ UNCHANGED <<delivered, copies, refused, unsure>>

ListFails ==
    /\ alert = "list"
    /\ alert' = "missed"
    /\ UNCHANGED <<listed, left, delivered, copies, refused, unsure>>

\* Mutant: the first destination that fails ends the notice.
DoneStopsAtFailure(d, ok) ==
    /\ left' = IF ok THEN left \ {d} ELSE {}
    /\ delivered' = IF ok THEN delivered \union {d} ELSE delivered
    /\ alert' = IF left' # {} THEN "send" ELSE IF delivered' = {} THEN "missed" ELSE "reached"
    /\ UNCHANGED listed

\* The notice to d is over, well or not; after the last one Alert returns.
Done(d, ok) ==
    /\ left' = left \ {d}
    /\ delivered' = IF ok THEN delivered \union {d} ELSE delivered
    /\ alert' = IF left' # {} THEN "send" ELSE IF delivered' = {} THEN "missed" ELSE "reached"
    /\ UNCHANGED listed

Arrives(d) == copies' = [copies EXCEPT ![d] = @ + 1]

Unusable ==
    /\ alert = "send"
    /\ LET d == First(left)
       IN  /\ ~Usable(d) \/ ~Sends(d)
           /\ Done(d, FALSE)
    /\ UNCHANGED <<copies, refused, unsure>>

Accepted ==
    /\ alert = "send"
    /\ LET d == First(left)
       IN  /\ Usable(d) /\ Sends(d)
           /\ Arrives(d)
           /\ Done(d, TRUE)
    /\ UNCHANGED <<refused, unsure>>

\* Mutant: what is refused is sent again on every channel.
RefuseAgain(d) == alert' = "plain" /\ UNCHANGED <<listed, left, delivered>>

\* An error from Telegram has the text sent again, unformatted.
Refuse(d) ==
    IF d.type = "telegram"
    THEN alert' = "plain" /\ UNCHANGED <<listed, left, delivered>>
    ELSE Done(d, FALSE)

Refused ==
    /\ alert = "send"
    /\ LET d == First(left)
       IN  /\ Usable(d) /\ Sends(d)
           /\ refused' = refused \union {d}
           /\ Refuse(d)
    /\ UNCHANGED <<copies, unsure>>

\* The message arrived and its answer did not, or says otherwise.
AnswerLost ==
    /\ alert = "send"
    /\ LET d == First(left)
       IN  /\ Usable(d) /\ Sends(d)
           /\ Arrives(d)
           /\ unsure' = unsure \union {d}
           /\ Refuse(d)
    /\ UNCHANGED refused

PlainAccepted ==
    /\ alert = "plain"
    /\ Arrives(First(left))
    /\ Done(First(left), TRUE)
    /\ UNCHANGED <<refused, unsure>>

PlainFails ==
    /\ alert = "plain"
    /\ LET d == First(left)
       IN  /\ \/ refused' = refused \union {d} /\ UNCHANGED <<copies, unsure>>
              \/ Arrives(d) /\ unsure' = unsure \union {d} /\ UNCHANGED refused
           /\ Done(d, FALSE)

Deliver ==
    \/ alert = "list" /\ \E rows \in SUBSET Rows : ListAlertActions(rows)
    \/ ListFails
    \/ Unusable \/ Accepted \/ Refused \/ AnswerLost
    \/ PlainAccepted \/ PlainFails

\* A message is on its way to Telegram, whose client waits for as long as it takes.
AwaitsTelegram ==
    \/ alert = "send" /\ First(left).type = "telegram" /\ Usable(First(left))
    \/ alert = "plain"

----
DeliveryTypeOK ==
    /\ clients \subseteq {"telegram", "vkteams"}
    /\ cancelled \in BOOLEAN
    /\ alert \in {"none", "list", "send", "plain", "reached", "missed", "dropped"}
    /\ listed \subseteq Destinations /\ left \subseteq listed /\ delivered \subseteq listed
    /\ copies \in [Destinations -> 0..2]
    /\ refused \subseteq listed /\ unsure \subseteq listed
    /\ alert \in {"send", "plain"} => left # {}

\* Once Alert has returned, every destination of the notice has been tried, whatever
\* went wrong with the others: it has the notice or could not be given it.  An
\* error is returned only if none is known to have it, and none at all only if
\* nobody is configured (Router.Alert, deliver, broadcastToAdmins).
EveryoneTried ==
    /\ alert \in {"reached", "missed"} =>
          \A d \in listed : copies[d] > 0 \/ d \in refused \/ ~Usable(d) \/ cancelled
    /\ alert = "reached" => \E d \in listed : copies[d] > 0
    /\ alert = "missed" => \A d \in listed : copies[d] = 0 \/ d \in unsure
    /\ alert = "dropped" => Admins = {} /\ \A d \in Destinations : copies[d] = 0

\* A destination gets a notice twice only where it is Telegram's and the answer to
\* the first was lost; nobody gets it three times or without being asked for
\* (Router.sendTelegram).
NoNeedlessCopies ==
    \A d \in Destinations :
        /\ copies[d] > 0 => d \in listed
        /\ copies[d] > 1 => copies[d] = 2 /\ d.type = "telegram" /\ d \in unsure
=============================================================================
