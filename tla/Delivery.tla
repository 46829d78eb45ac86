------------------------------ MODULE Delivery ------------------------------
(* Mail and notifications, as operators: the envelope and the body of a message, and      *)
(* what a dispatcher has delivered when it returns.                                          *)
EXTENDS Naturals, Sequences, FiniteSets, SequencesExt

(* Send: the envelope is To, CC and BCC, each address once, blank ones left out; an empty      *)
(* one is an error.  BuildRaw names To and CC in the headers.                                    *)
Unseen(seen, address) == IF address = "" \/ address \in ToSet(seen) THEN seen ELSE Append(seen, address)
Envelope(msg) == FoldLeft(Unseen, <<>>, msg.to \o msg.cc \o msg.bcc)
Headers(msg) == ToSet(msg.to) \cup ToSet(msg.cc)

(* The parts of the body, in order: [type, body].                                                 *)
BuildRaw(msg) ==
  LET hasHTML == msg.html # "" \/ msg.isHTML
      text == [type |-> "text", body |-> msg.body]
      html == [type |-> "html", body |-> msg.html]
  IN CASE msg.attachments # <<>> ->
            <<IF hasHTML THEN html ELSE text>>
              \o [i \in DOMAIN msg.attachments |-> [type |-> "file", body |-> msg.attachments[i]]]
       [] msg.attachments = <<>> /\ hasHTML /\ msg.body # "" -> <<text, html>>
       [] msg.attachments = <<>> /\ hasHTML /\ msg.body = "" -> <<html>>
       [] msg.attachments = <<>> /\ ~hasHTML -> <<text>>

(* Every recipient is in the envelope, once; a header names no BCC that is not also another's.     *)
(* The body a message was given is in a part of its type, unless files and HTML come with a text;    *)
(* of the deprecated IsHTML this is not true: its body is sent as text, or not at all with a file.    *)
MailSound(msg) ==
  LET all == (ToSet(msg.to) \cup ToSet(msg.cc) \cup ToSet(msg.bcc)) \ {""}
      has(type, body) == [type |-> type, body |-> body] \in ToSet(BuildRaw(msg))
  IN /\ ToSet(Envelope(msg)) = all /\ Len(Envelope(msg)) = Cardinality(all)
     /\ Headers(msg) \cap ToSet(msg.bcc) \subseteq ToSet(msg.to) \cup ToSet(msg.cc)
     /\ ~msg.isHTML =>
          /\ msg.html # "" => has("html", msg.html)
          /\ msg.body # "" /\ (msg.html = "" \/ msg.attachments = <<>>) => has("text", msg.body)
     /\ \A i \in DOMAIN msg.attachments : has("file", msg.attachments[i])

-----------------------------------------------------------------------------
(* DatabaseChannel and MailChannel, given the database and the mailer of the dispatcher: what is sent,    *)
(* an error or a panic.  The row's statement is written with `?', which Postgres refuses; the mail goes to  *)
(* the message's own recipients or to the receiver's address.  A notification is [via, toDatabase, toMail,   *)
(* mailTo]: "none" for a method it does not have, "error" for one that fails; data JSON refuses; no message.   *)
Sent(to) == [is |-> "sent", to |-> to]
Fails == [is |-> "error", to |-> ""]
Panics == [is |-> "panic", to |-> ""]
DatabaseSend(db, receiver, notification) ==
  CASE notification.toDatabase # "ok" \/ ~receiver.notifiable -> Fails
    [] notification.toDatabase = "ok" /\ receiver.notifiable ->
         CASE db = "none" -> Panics
           [] db \in {"postgres", "down"} -> Fails
           [] db = "mysql" -> Sent("row")
MailTo(receiver, notification) == IF notification.mailTo # "" THEN notification.mailTo ELSE receiver.email
MailSend(mailer, receiver, notification) ==
  CASE notification.toMail \in {"none", "error"} \/ ~receiver.notifiable -> Fails
    [] notification.toMail = "nil" /\ receiver.notifiable -> Panics
    [] notification.toMail = "ok" /\ receiver.notifiable ->
         CASE MailTo(receiver, notification) = "" \/ mailer = "down" -> Fails
           [] MailTo(receiver, notification) # "" /\ mailer = "none" -> Panics
           [] MailTo(receiver, notification) # "" /\ mailer = "up" -> Sent(MailTo(receiver, notification))
(* A dispatcher is [channels: those registered, db, mailer].                                                *)
ChannelSend(d, channel, receiver, notification) ==
  CASE channel \notin d.channels -> Fails
    [] channel \in d.channels /\ channel = "mail" -> MailSend(d.mailer, receiver, notification)
    [] channel \in d.channels /\ channel = "database" -> DatabaseSend(d.db, receiver, notification)

(* Dispatcher.Send and SendMany stop at the first channel that fails, and a panic goes through them; what     *)
(* went before is sent.                                                                                         *)
Send(d, done, channel, receiver, notification) ==
  IF done.is # "sent" THEN done
  ELSE LET sent == ChannelSend(d, channel, receiver, notification) IN
       [is |-> sent.is,
        out |-> IF sent.is = "sent" THEN Append(done.out, <<receiver.name, channel, sent.to>>) ELSE done.out]
SendMany(d, receivers, notification) ==
  FoldLeft(LAMBDA done, receiver :
             FoldLeft(LAMBDA sofar, channel : Send(d, sofar, channel, receiver, notification), done, notification.via),
           [is |-> "sent", out |-> <<>>], receivers)

(* Without an error every receiver got every channel, in order; with one they did up to the first channel      *)
(* of the first receiver that fails, and nothing after it: sending again sends those twice.  A panic is of      *)
(* a dispatcher without its mailer or database, or of a notification without its message.  Nobody is mailed      *)
(* at an address that is neither the message's nor the receiver's.                                                *)
DispatchSound(d, receivers, notification) ==
  LET via == notification.via
      pairs == [n \in 1 .. Len(receivers) * Len(via) |->
                  [r |-> receivers[((n - 1) \div Len(via)) + 1], c |-> via[((n - 1) % Len(via)) + 1]]]
      result(n) == ChannelSend(d, pairs[n].c, pairs[n].r, notification)
      fails == {n \in DOMAIN pairs : result(n).is # "sent"}
      upto == IF fails = {} THEN Len(pairs) ELSE Min(fails) - 1
      out == SendMany(d, receivers, notification)
  IN /\ out.is = IF fails = {} THEN "sent" ELSE result(Min(fails)).is
     /\ Len(out.out) = upto
     /\ \A n \in 1 .. upto : /\ out.out[n][1] = pairs[n].r.name /\ out.out[n][2] = pairs[n].c
                             /\ pairs[n].c = "mail" => out.out[n][3] \in {notification.mailTo, pairs[n].r.email} \ {""}
     /\ out.is = "panic" => "none" \in {d.db, d.mailer} \/ notification.toMail = "nil"
=============================================================================
