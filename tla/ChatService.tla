---------------------------- MODULE ChatService ----------------------------
(***************************************************************************)
(* What the proxy and the servers promise the clients, without threads,    *)
(* tables, sockets or servers.  A client numbers its exchanges; exchange n *)
(* makes two items due, 2n, the exchange itself, and 2n + 1, its           *)
(* acknowledgement.  The items of a client are dealt with one by one, the  *)
(* least first, each at most once, by putting it in at most one mailbox    *)
(* (an exchange as DT_CEX, or as DT_EOC when it is returned).  Items may   *)
(* be lost, those of many clients at once when a server dies, but never an *)
(* exchange whose acknowledgement is still to come.  The service does not  *)
(* promise whose mailbox it is.                                            *)
(***************************************************************************)
EXTENDS Integers, Sequences

CONSTANTS
  Clients,   \* the connections
  Exchanges, \* how many exchanges each may say
  Notices    \* the letters that come from no client: answers to queries

VARIABLES
  next,   \* the exchange a client says next
  due,    \* the items it has made due that nobody has dealt with
  mail    \* what has been put in a client's mailbox, in this order

vars == <<next, due, mail>>

Letter(type, c, id) == [type |-> type, from |-> c, id |-> id]

\* The forms that item k of c may be sent in, as it is or returned.
Forms(k) == IF k % 2 = 0 THEN {"CEX", "EOC"} ELSE {"ACK", "EOF"}
Letters(c, k) == {Letter(t, c, k \div 2) : t \in Forms(k)}

Init ==
  /\ next = [c \in Clients |-> 0]
  /\ due = [c \in Clients |-> {}]
  /\ mail = [c \in Clients |-> <<>>]

\* One of the letters for one client, or none for anybody.
Posted(letters) ==
  \/ UNCHANGED mail
  \/ \E d \in Clients, l \in letters : mail' = [mail EXCEPT ![d] = Append(@, l)]

Say(c) ==
  /\ next[c] < Exchanges
  /\ next' = [next EXCEPT ![c] = @ + 1]
  /\ due' = [due EXCEPT ![c] = @ \cup {2 * next[c], 2 * next[c] + 1}]
  /\ UNCHANGED mail

\* The relay has sent, returned or dropped the item.
Deal(c) ==
  \E k \in due[c] :
    /\ \A l \in due[c] : k <= l
    /\ due' = [due EXCEPT ![c] = @ \ {k}]
    /\ Posted(Letters(c, k))
    /\ UNCHANGED next

\* What may be left of the items due: no acknowledgement without its exchange.
Remains(items, left) ==
  /\ left \subseteq items
  /\ \A k \in left : k % 2 = 1 /\ k - 1 \in items => k - 1 \in left

Lose ==
  /\ due' = [c \in Clients |-> due'[c]]
  /\ \A c \in Clients : Remains(due[c], due'[c])
  /\ UNCHANGED <<next, mail>>

\* The client goes: it says nothing more, and some of what it said may be lost.
Leave(c) ==
  /\ next' = [next EXCEPT ![c] = Exchanges]
  /\ due' = [due EXCEPT ![c] = due'[c]]
  /\ Remains(due[c], due'[c])
  /\ UNCHANGED mail

\* What the service itself writes to a client.
Notify ==
  /\ UNCHANGED <<next, due>>
  /\ Posted(Notices)

Next ==
  \/ Notify \/ Lose
  \/ \E c \in Clients : Say(c) \/ Leave(c) \/ Deal(c)

Spec == Init /\ [][Next]_vars
=============================================================================
