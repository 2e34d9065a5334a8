----------------------------- MODULE WebhooksProofs -----------------------------
(***************************************************************************)
(* Proofs about Webhooks, for every bound on the boxes of a description,   *)
(* the webhooks on their way and the actions of people, and every valid    *)
(* configuration of either platform.                                       *)
(***************************************************************************)
EXTENDS Webhooks, SequenceTheorems, TLAPS

(***************************************************************************)
(* What is left when one element of a sequence is taken out: the others,   *)
(* and nothing else.                                                       *)
(***************************************************************************)
LEMMA RemoveAtRest ==
    ASSUME NEW S, NEW s \in Seq(S), NEW k \in 1..Len(s)
    PROVE  /\ RemoveAt(s, k) \in Seq(S)
           /\ Len(RemoveAt(s, k)) = Len(s) - 1
           /\ \A i \in 1..(Len(s) - 1) : RemoveAt(s, k)[i] = s[IF i < k THEN i ELSE i + 1]
<1>1. /\ Len(s) \in Nat
      /\ SubSeq(s, 1, k - 1) \in Seq(S) /\ Len(SubSeq(s, 1, k - 1)) = k - 1
      /\ SubSeq(s, k + 1, Len(s)) \in Seq(S) /\ Len(SubSeq(s, k + 1, Len(s))) = Len(s) - k
      /\ \A i \in 1..(k - 1) : SubSeq(s, 1, k - 1)[i] = s[i]
      /\ \A i \in 1..(Len(s) - k) : SubSeq(s, k + 1, Len(s))[i] = s[k + i]
  OBVIOUS
<1> DEFINE a == SubSeq(s, 1, k - 1)
           b == SubSeq(s, k + 1, Len(s))
<1>2. RemoveAt(s, k) = a \o b
  BY DEF RemoveAt
<1> HIDE DEF a, b
<1>3. a \in Seq(S) /\ b \in Seq(S) /\ Len(a) = k - 1 /\ Len(b) = Len(s) - k
  BY <1>1 DEF a, b
<1>4. Len(s) \in Nat /\ k \in Int /\ 1 <= k /\ k <= Len(s) /\ Len(a) + Len(b) = Len(s) - 1
  BY <1>1, <1>3
<1>5. /\ a \o b \in Seq(S) /\ Len(a \o b) = Len(a) + Len(b)
      /\ \A i \in 1..(Len(a) + Len(b)) :
           (a \o b)[i] = IF i <= Len(a) THEN a[i] ELSE b[i - Len(a)]
  BY <1>3, ConcatProperties
<1>6. ASSUME NEW i \in 1..(Len(s) - 1)
      PROVE  (a \o b)[i] = s[IF i < k THEN i ELSE i + 1]
  <2>1. (a \o b)[i] = IF i <= k - 1 THEN a[i] ELSE b[i - (k - 1)]
    BY <1>3, <1>4, <1>5, Zenon
  <2>2. CASE i < k
    <3>1. i \in 1..(k - 1)
      BY <1>4, <2>2
    <3>2. a[i] = s[i]
      BY <1>1, <3>1 DEF a
    <3> QED
      BY <2>1, <2>2, <3>1, <3>2
  <2>3. CASE ~(i < k)
    <3>1. /\ i - (k - 1) \in 1..(Len(s) - k) /\ k + (i - (k - 1)) = i + 1
          /\ ~(i <= k - 1)
      BY <1>4, <2>3
    <3>2. b[i - (k - 1)] = s[k + (i - (k - 1))]
      BY <1>1, <3>1, Zenon DEF b
    <3> QED
      BY <2>1, <2>3, <3>1, <3>2, Zenon
  <2> QED
    BY <2>2, <2>3
<1> DEFINE e == a \o b
<1> HIDE DEF e
<1>7. e \in Seq(S) /\ Len(e) = Len(s) - 1
  BY <1>4, <1>5 DEF e
<1>8. \A i \in 1..(Len(s) - 1) : e[i] = s[IF i < k THEN i ELSE i + 1]
  BY <1>6 DEF e
<1>9. RemoveAt(s, k) = e
  BY <1>2 DEF e
<1> QED
  BY <1>7, <1>8, <1>9, Zenon

(***************************************************************************)
(* Every other element is still there, at its place or one before it.      *)
(***************************************************************************)
LEMMA RemoveAtKeeps ==
    ASSUME NEW S, NEW s \in Seq(S), NEW k \in 1..Len(s), NEW j \in 1..Len(s), j # k
    PROVE  \E i \in 1..Len(RemoveAt(s, k)) : RemoveAt(s, k)[i] = s[j]
<1>1. CASE j < k
  <2>1. j \in 1..(Len(s) - 1)
    BY <1>1
  <2> QED
    BY <1>1, <2>1, RemoveAtRest
<1>2. CASE j > k
  <2>1. j - 1 \in 1..(Len(s) - 1) /\ ~(j - 1 < k) /\ (j - 1) + 1 = j
    BY <1>2
  <2> QED
    BY <2>1, RemoveAtRest
<1> QED
  BY <1>1, <1>2

(***************************************************************************)
(* The webhooks of the model are webhooks.                                 *)
(***************************************************************************)
LEMMA Messages ==
    ASSUME TypeOK, NEW h \in Headers, NEW sent \in BOOLEAN
    PROVE  /\ \A old, new \in Text, edited \in BOOLEAN : Edit(old, new, edited, sent, h) \in Message
           /\ \A byBot, onDefault \in BOOLEAN : Push(byBot, onDefault, sent, h) \in Message
<1>1. cfg.document \in Document
  BY DEF TypeOK, Config
<1>2. \A old, new \in Text, edited \in BOOLEAN : Edit(old, new, edited, sent, h) \in Message
  BY <1>1 DEF Edit, Message
<1>3. \A byBot, onDefault \in BOOLEAN : Push(byBot, onDefault, sent, h) \in Message
  BY DEF Push, Message
<1> QED
  BY <1>2, <1>3

(***************************************************************************)
(* A webhook is sent: the others stay on their way.                        *)
(***************************************************************************)
LEMMA SendStep ==
    ASSUME TypeOK, ForgeriesLackSecrets, NEW w \in Message, Send(w),
           ~w.sent => w.headers.signature # "good" /\ w.headers.token # "good"
    PROVE  /\ inbox' \in Seq(Message) /\ Len(inbox') <= MaxInbox
           /\ ForgeriesLackSecrets'
           /\ Len(inbox') = Len(inbox) + 1 /\ inbox'[Len(inbox')] = w
           /\ \A k \in 1..Len(inbox) : k \in 1..Len(inbox') /\ inbox'[k] = inbox[k]
<1>1. inbox \in Seq(Message) /\ Len(inbox) \in Nat /\ Len(inbox) < MaxInbox /\ MaxInbox \in Nat
  BY BoundAssumption DEF TypeOK, Send
<1>2. /\ inbox' \in Seq(Message) /\ Len(inbox') = Len(inbox) + 1
      /\ inbox'[Len(inbox')] = w
      /\ \A k \in 1..Len(inbox) : k \in 1..Len(inbox') /\ inbox'[k] = inbox[k]
  BY <1>1 DEF Send
<1>3. ForgeriesLackSecrets'
  <2> SUFFICES ASSUME NEW k \in 1..Len(inbox'), ~inbox'[k].sent
               PROVE  inbox'[k].headers.signature # "good" /\ inbox'[k].headers.token # "good"
    BY DEF ForgeriesLackSecrets
  <2>1. CASE k = Len(inbox')
    BY <1>2, <2>1
  <2>2. CASE k # Len(inbox')
    <3>1. k \in 1..Len(inbox)
      BY <1>1, <1>2, <2>2
    <3> QED
      BY <1>2, <3>1 DEF ForgeriesLackSecrets
  <2> QED
    BY <2>1, <2>2
<1> QED
  BY <1>1, <1>2, <1>3

(***************************************************************************)
(* A tick in a configured document is accepted, whichever way the document *)
(* is identified and however the platform signs (gitlab.go, github.go:     *)
(* ParseWebhook).                                                          *)
(***************************************************************************)
LEMMA TickIsAccepted ==
    ASSUME TypeOK, Valid(cfg), NEW new \in Text, IsTick(doc, new), RepoAllowed,
           cfg.document \in cfg.events, NEW looked \in BOOLEAN
    PROVE  ParseWebhook(Edit(doc, new, TRUE, TRUE, Genuine), looked)
<1> DEFINE w == Edit(doc, new, TRUE, TRUE, Genuine)
<1>1. /\ w.type = cfg.document /\ w.old = doc /\ w.new = new /\ w.edited = TRUE
      /\ w.headers = Genuine
  BY DEF Edit
<1>2. Authorized(Genuine)
  <2>1. cfg.platform \in {"gitlab", "github"} /\ (cfg.secret \/ cfg.signingSecret)
    BY PlatformAssumption DEF TypeOK, Config, Valid
  <2>2. /\ Genuine.signature = IF cfg.platform = "github" \/ cfg.signingSecret THEN "good" ELSE "none"
        /\ Genuine.token = IF cfg.platform = "gitlab" /\ cfg.secret THEN "good" ELSE "none"
    BY DEF Genuine
  <2> QED
    BY <2>1, <2>2 DEF Authorized, AuthorizeWebhook
<1>3. CurrentBody(w) = new /\ PreviousBody(w) = doc /\ new # NoText /\ doc # NoText
  BY <1>1, TextAssumption DEF CurrentBody, PreviousBody, TypeOK
<1>4. Ticked(w, looked)
  BY <1>3 DEF Ticked, Identified, IsTick, CheckedItems, CheckedMarkerItems
<1>5. w.type # "push"
  BY <1>1 DEF TypeOK, Config, Document
<1> HIDE DEF w
<1>6. ParseWebhook(w, looked)
  BY <1>1, <1>2, <1>4, <1>5 DEF ParseWebhook
<1> QED
  BY <1>6 DEF w

(***************************************************************************)
(* The configuration never changes, so a webhook on its way is judged as   *)
(* it would have been before.                                              *)
(***************************************************************************)
LEMMA JudgedAlike ==
    ASSUME cfg' = cfg
    PROVE  NoTickIsLost' <=>
             (asked' => \/ TheRepo \in pending'
                        \/ \E k \in 1..Len(inbox') :
                             \A looked \in BOOLEAN : ParseWebhook(inbox'[k], looked))
<1> USE DEF NoTickIsLost, ParseWebhook, Authorized, AuthorizeWebhook, PushCounts, Ticked,
        CurrentBody, PreviousBody, Identified, CheckedItems, CheckedMarkerItems, RepoAllowed
<1> QED
  OBVIOUS

(***************************************************************************)
(* A step that takes no webhook and no waiting event away, and reports no  *)
(* new tick, loses none.                                                   *)
(***************************************************************************)
LEMMA NothingIsLost ==
    ASSUME NoTickIsLost, cfg' = cfg, asked' => asked, TheRepo \in pending => TheRepo \in pending',
           \A k \in 1..Len(inbox) : k \in 1..Len(inbox') /\ inbox'[k] = inbox[k]
    PROVE  NoTickIsLost'
<1> SUFFICES ASSUME asked'
             PROVE  \/ TheRepo \in pending'
                    \/ \E k \in 1..Len(inbox') :
                         \A looked \in BOOLEAN : ParseWebhook(inbox'[k], looked)
  BY JudgedAlike
<1>1. CASE TheRepo \in pending
  BY <1>1
<1>2. CASE TheRepo \notin pending
  <2>1. PICK k \in 1..Len(inbox) : \A looked \in BOOLEAN : ParseWebhook(inbox[k], looked)
    BY <1>2 DEF NoTickIsLost
  <2>2. k \in 1..Len(inbox') /\ inbox'[k] = inbox[k]
    OBVIOUS
  <2> QED
    BY <2>1, <2>2
<1> QED
  BY <1>1, <1>2

(***************************************************************************)
(* The handler takes a webhook from the inbox (server.go: webhookHandler). *)
(* If it is the tick that no run has seen, it is not refused.              *)
(***************************************************************************)
LEMMA DeliverStep ==
    ASSUME WebhooksInv, NEW k \in 1..Len(inbox), Deliver(k)
    PROVE  WebhooksInv'
<1> USE DEF WebhooksInv
<1>1. PICK looked \in BOOLEAN :
        /\ Receive(k, looked)
        /\ \/ Runs!Request(TheRepo)
           \/ ~ParseWebhook(inbox[k], looked) /\ UNCHANGED <<pending, running>>
  BY DEF Deliver, Accept, Refuse
<1>2. /\ inbox' = RemoveAt(inbox, k) /\ cfg' = cfg /\ doc' = doc /\ worked' = worked
      /\ acts' = acts /\ asked' = asked
  BY <1>1 DEF Receive
<1>3. author' \in {"unset", "name"}
  BY <1>1 DEF Receive, TypeOK
<1>4. inbox \in Seq(Message) /\ Len(inbox) \in Nat /\ Len(inbox) <= MaxInbox /\ MaxInbox \in Nat
  BY BoundAssumption DEF TypeOK
<1>5. /\ inbox' \in Seq(Message) /\ Len(inbox') = Len(inbox) - 1
      /\ \A i \in 1..(Len(inbox) - 1) : inbox'[i] = inbox[IF i < k THEN i ELSE i + 1]
  BY <1>2, <1>4, RemoveAtRest
<1>6. running' = running /\ (pending' = pending \/ pending' = pending \union {TheRepo})
  BY <1>1 DEF Runs!Request
<1>7. TypeOK' /\ Valid(cfg)'
  <2>1. pending' \subseteq {TheRepo} /\ running' \subseteq {TheRepo}
    BY <1>6 DEF TypeOK
  <2>2. Len(inbox') <= MaxInbox
    BY <1>4, <1>5
  <2> QED
    BY <1>2, <1>3, <1>5, <2>1, <2>2 DEF TypeOK, Valid
<1>8. ForgeriesLackSecrets'
  <2> SUFFICES ASSUME NEW i \in 1..Len(inbox'), ~inbox'[i].sent
               PROVE  inbox'[i].headers.signature # "good" /\ inbox'[i].headers.token # "good"
    BY DEF ForgeriesLackSecrets
  <2>1. PICK j \in 1..Len(inbox) : inbox'[i] = inbox[j]
    BY <1>4, <1>5
  <2> QED
    BY <2>1 DEF ForgeriesLackSecrets
<1>9. NoTickIsLost'
  <2> SUFFICES ASSUME asked', TheRepo \notin pending'
               PROVE  \E i \in 1..Len(inbox') :
                        \A l \in BOOLEAN : ParseWebhook(inbox'[i], l)
    BY <1>2, JudgedAlike
  <2>1. TheRepo \notin pending /\ ~ParseWebhook(inbox[k], looked)
    BY <1>1, <1>6 DEF Runs!Request
  <2>2. PICK j \in 1..Len(inbox) : \A l \in BOOLEAN : ParseWebhook(inbox[j], l)
    BY <1>2, <2>1 DEF NoTickIsLost
  <2>3. j # k
    BY <2>1, <2>2
  <2>4. PICK i \in 1..Len(inbox') : inbox'[i] = inbox[j]
    BY <1>2, <1>4, <2>3, RemoveAtKeeps
  <2> QED
    BY <2>2, <2>4
<1> QED
  BY <1>7, <1>8, <1>9

(***************************************************************************)
(* People and strangers: only an edit of the description can be a tick,    *)
(* and its webhook is then on its way.                                     *)
(***************************************************************************)
LEMMA PeopleStep ==
    ASSUME WebhooksInv, People
    PROVE  WebhooksInv'
<1> USE DEF WebhooksInv
<1>1. acts < MaxActs /\ acts' = acts + 1 /\ cfg' = cfg /\ author' = author /\ worked' = worked
  BY DEF People, PersonEdits, PersonRetitles, PersonPushes, StrangerPosts, ManualTrigger, runVars
<1>2. acts' \in 0..MaxActs /\ Valid(cfg)'
  BY <1>1, BoundAssumption DEF TypeOK, Valid
<1>3. Genuine \in Headers
  BY DEF Genuine, Headers
<1>4. CASE PersonEdits
  <2>1. PICK new \in Text :
          /\ doc' = new
          /\ Send(Edit(doc, new, TRUE, TRUE, Genuine))
          /\ asked' = (asked \/ (IsTick(doc, new) /\ RepoAllowed /\ cfg.document \in cfg.events))
    BY <1>4 DEF PersonEdits
  <2> DEFINE w == Edit(doc, new, TRUE, TRUE, Genuine)
  <2>2. w \in Message /\ w.sent
    <3>1. doc \in Text
      BY DEF TypeOK
    <3>2. w \in Message
      BY <1>3, <3>1, Messages
    <3> QED
      BY <3>2 DEF Edit
  <2>3. pending' = pending /\ running' = running
    BY <1>4 DEF PersonEdits, runVars
  <2>4. asked' \in BOOLEAN
    BY <2>1
  <2> HIDE DEF w
  <2>5. Send(w)
    BY <2>1 DEF w
  <2>6. /\ inbox' \in Seq(Message) /\ Len(inbox') <= MaxInbox /\ ForgeriesLackSecrets'
        /\ Len(inbox') = Len(inbox) + 1 /\ inbox'[Len(inbox')] = w
        /\ \A k \in 1..Len(inbox) : k \in 1..Len(inbox') /\ inbox'[k] = inbox[k]
    BY <2>2, <2>5, SendStep
  <2>7. TypeOK'
    BY <1>1, <1>2, <2>1, <2>3, <2>4, <2>6 DEF TypeOK
  <2>8. CASE IsTick(doc, new) /\ RepoAllowed /\ cfg.document \in cfg.events
    <3>1. \A looked \in BOOLEAN : ParseWebhook(w, looked)
      BY <2>8, TickIsAccepted DEF w
    <3>2. Len(inbox') \in 1..Len(inbox')
      BY <2>6 DEF TypeOK
    <3> QED
      BY <1>1, <1>2, <2>6, <2>7, <3>1, <3>2, JudgedAlike
  <2>9. CASE ~(IsTick(doc, new) /\ RepoAllowed /\ cfg.document \in cfg.events)
    <3>1. asked' => asked
      BY <2>1, <2>9
    <3>2. NoTickIsLost'
      BY <1>1, <2>3, <2>6, <3>1, NothingIsLost
    <3> QED
      BY <1>2, <2>6, <2>7, <3>2
  <2> QED
    BY <2>8, <2>9
<1>5. CASE PersonRetitles \/ PersonPushes \/ StrangerPosts
  <2>1. doc' = doc /\ asked' = asked /\ pending' = pending /\ running' = running
    BY <1>5 DEF PersonRetitles, PersonPushes, StrangerPosts, runVars
  <2>2. PICK w \in Message :
          Send(w) /\ (~w.sent => w.headers.signature # "good" /\ w.headers.token # "good")
    <3>1. CASE PersonRetitles
      <4>1. Edit(doc, doc, FALSE, TRUE, Genuine) \in Message
        BY <1>3, Messages DEF TypeOK
      <4> QED
        BY <3>1, <4>1 DEF PersonRetitles, Edit
    <3>2. CASE PersonPushes
      <4>1. \A onDefault \in BOOLEAN : Push(FALSE, onDefault, TRUE, Genuine) \in Message
        BY <1>3, Messages
      <4> QED
        BY <3>2, <4>1 DEF PersonPushes, Push
    <3>3. CASE StrangerPosts
      <4>1. [plain |-> 0, marked |-> 0] \in Text /\ [plain |-> 1, marked |-> 1] \in Text
        BY BoundAssumption DEF Text
      <4>2. PICK h \in Headers :
              /\ h.signature # "good" /\ h.token # "good"
              /\ Send(Edit([plain |-> 0, marked |-> 0], [plain |-> 1, marked |-> 1],
                           TRUE, FALSE, h))
        BY <3>3 DEF StrangerPosts
      <4> DEFINE w == Edit([plain |-> 0, marked |-> 0], [plain |-> 1, marked |-> 1],
                           TRUE, FALSE, h)
      <4>3. w \in Message
        BY <4>1, Messages
      <4>4. w.headers = h
        BY DEF Edit
      <4> QED
        BY <4>2, <4>3, <4>4
    <3> QED
      BY <1>5, <3>1, <3>2, <3>3
  <2>3. /\ inbox' \in Seq(Message) /\ Len(inbox') <= MaxInbox /\ ForgeriesLackSecrets'
        /\ \A k \in 1..Len(inbox) : k \in 1..Len(inbox') /\ inbox'[k] = inbox[k]
    BY <2>2, SendStep
  <2>4. TypeOK'
    BY <1>1, <1>2, <2>1, <2>3 DEF TypeOK
  <2>5. NoTickIsLost'
    BY <1>1, <2>1, <2>3, NothingIsLost
  <2> QED
    BY <1>2, <2>3, <2>4, <2>5
<1>6. CASE ManualTrigger
  <2>1. /\ doc' = doc /\ inbox' = inbox /\ asked' = asked /\ running' = running
        /\ pending' = pending \union {TheRepo}
    BY <1>6 DEF ManualTrigger, Runs!Request
  <2>2. TypeOK'
    BY <1>1, <1>2, <2>1 DEF TypeOK
  <2>3. ForgeriesLackSecrets'
    BY <2>1 DEF ForgeriesLackSecrets
  <2>4. NoTickIsLost'
    BY <1>1, <2>1, NothingIsLost
  <2> QED
    BY <1>2, <2>2, <2>3, <2>4
<1> QED
  BY <1>4, <1>5, <1>6 DEF People

(***************************************************************************)
(* Renovate and its runs: a run that starts answers the tick, and what     *)
(* renovate does while it runs takes no webhook away.                      *)
(***************************************************************************)
LEMMA RunStep ==
    ASSUME WebhooksInv, Renovate \/ RunStarts \/ RunEnds
    PROVE  WebhooksInv'
<1> USE DEF WebhooksInv
<1>1. cfg' = cfg /\ author' = author /\ acts' = acts /\ worked' \in BOOLEAN
  <2>1. CASE Renovate
    BY <2>1 DEF Renovate, RenovateEdits, RenovateRetitles, RenovatePushes
  <2>2. CASE RunStarts \/ RunEnds
    BY <2>2 DEF RunStarts, RunEnds
  <2> QED
    BY <2>1, <2>2
<1>2. Valid(cfg)'
  BY <1>1 DEF Valid
<1>3. Genuine \in Headers
  BY DEF Genuine, Headers
<1>4. CASE Renovate
  <2>1. pending' = pending /\ running' = running /\ asked' = asked
    BY <1>4 DEF Renovate, RenovateEdits, RenovateRetitles, RenovatePushes
  <2>2. doc' \in Text
    <3>1. doc \in Text /\ [doc EXCEPT !.marked = 0] \in Text
      <4>1. doc \in Text /\ 0 \in 0..MaxBoxes
        BY BoundAssumption DEF TypeOK
      <4> QED
        BY <4>1 DEF Text
    <3> QED
      BY <1>4, <3>1 DEF Renovate, RenovateEdits, RenovateRetitles, RenovatePushes
  <2>3. PICK w \in Message : Send(w) /\ w.sent
    <3>1. CASE RenovateEdits
      <4>1. PICK new : doc' = new /\ Send(Edit(doc, new, TRUE, TRUE, Genuine))
        BY <3>1 DEF RenovateEdits
      <4>2. Edit(doc, new, TRUE, TRUE, Genuine) \in Message
        BY <1>3, <2>2, <4>1, Messages DEF TypeOK
      <4> QED
        BY <4>1, <4>2 DEF Edit
    <3>2. CASE RenovateRetitles
      <4>1. Edit(doc, doc, FALSE, TRUE, Genuine) \in Message
        BY <1>3, Messages DEF TypeOK
      <4> QED
        BY <3>2, <4>1 DEF RenovateRetitles, Edit
    <3>3. CASE RenovatePushes
      <4>1. \A onDefault \in BOOLEAN : Push(TRUE, onDefault, TRUE, Genuine) \in Message
        BY <1>3, Messages
      <4> QED
        BY <3>3, <4>1 DEF RenovatePushes, Push
    <3> QED
      BY <1>4, <3>1, <3>2, <3>3 DEF Renovate
  <2>4. /\ inbox' \in Seq(Message) /\ Len(inbox') <= MaxInbox /\ ForgeriesLackSecrets'
        /\ \A k \in 1..Len(inbox) : k \in 1..Len(inbox') /\ inbox'[k] = inbox[k]
    BY <2>3, SendStep
  <2>5. TypeOK'
    BY <1>1, <2>1, <2>2, <2>4 DEF TypeOK
  <2>6. NoTickIsLost'
    BY <1>1, <2>1, <2>4, NothingIsLost
  <2> QED
    BY <1>2, <2>4, <2>5, <2>6
<1>5. CASE RunStarts
  <2>1. /\ doc' = doc /\ inbox' = inbox /\ asked' = FALSE
        /\ running' = running \union {TheRepo} /\ pending' = pending \ {TheRepo}
    BY <1>5 DEF RunStarts, Runs!Start
  <2>2. TypeOK'
    BY <1>1, <2>1 DEF TypeOK
  <2>3. ForgeriesLackSecrets' /\ NoTickIsLost'
    BY <2>1 DEF ForgeriesLackSecrets, NoTickIsLost
  <2> QED
    BY <1>2, <2>2, <2>3
<1>6. CASE RunEnds
  <2>1. /\ doc' = doc /\ inbox' = inbox /\ asked' = asked /\ pending' = pending
        /\ running' = running \ {TheRepo}
    BY <1>6 DEF RunEnds, Runs!Finish
  <2>2. TypeOK'
    BY <1>1, <2>1 DEF TypeOK
  <2>3. ForgeriesLackSecrets'
    BY <2>1 DEF ForgeriesLackSecrets
  <2>4. NoTickIsLost'
    BY <1>1, <2>1, NothingIsLost
  <2> QED
    BY <1>2, <2>2, <2>3, <2>4
<1> QED
  BY <1>4, <1>5, <1>6

------------------------------------------------------------------------------
(***************************************************************************)
(* The inductive invariant.                                                *)
(***************************************************************************)
THEOREM WebhooksInvariance == Spec => []WebhooksInv
<1>1. Init => WebhooksInv
  <2> SUFFICES ASSUME Init
               PROVE  WebhooksInv
    OBVIOUS
  <2>1. inbox = <<>> /\ inbox \in Seq(Message) /\ Len(inbox) = 0 /\ ~asked
    BY DEF Init
  <2>2. TypeOK
    <3>1. Len(inbox) <= MaxInbox /\ acts \in 0..MaxActs
      BY <2>1, BoundAssumption DEF Init
    <3> QED
      BY <2>1, <3>1 DEF Init, TypeOK
  <2>3. Valid(cfg)
    BY DEF Init
  <2>4. ForgeriesLackSecrets /\ NoTickIsLost
    BY <2>1 DEF ForgeriesLackSecrets, NoTickIsLost
  <2> QED
    BY <2>2, <2>3, <2>4 DEF WebhooksInv
<1>2. WebhooksInv /\ [Next]_vars => WebhooksInv'
  <2> SUFFICES ASSUME WebhooksInv, [Next]_vars
               PROVE  WebhooksInv'
    OBVIOUS
  <2>1. CASE \E k \in 1..Len(inbox) : Deliver(k)
    BY <2>1, DeliverStep
  <2>2. CASE People
    BY <2>2, PeopleStep
  <2>3. CASE Renovate \/ RunStarts \/ RunEnds
    BY <2>3, RunStep
  <2>4. CASE UNCHANGED vars
    <3>1. TypeOK' /\ Valid(cfg)' /\ ForgeriesLackSecrets'
      BY <2>4 DEF vars, WebhooksInv, TypeOK, Valid, ForgeriesLackSecrets
    <3>2. NoTickIsLost'
      BY <2>4, NothingIsLost DEF vars, WebhooksInv
    <3> QED
      BY <3>1, <3>2 DEF WebhooksInv
  <2> QED
    BY <2>1, <2>2, <2>3, <2>4 DEF Next
<1> QED
  BY <1>1, <1>2, PTL DEF Spec

(***************************************************************************)
(* Type correctness: no webhook is malformed, no more are on their way     *)
(* than the bound, and the author cache holds a found name or nothing.     *)
(***************************************************************************)
THEOREM WebhooksTypeCorrect == Spec => []TypeOK
<1>1. WebhooksInv => TypeOK
  BY DEF WebhooksInv
<1> QED
  BY <1>1, WebhooksInvariance, PTL

(***************************************************************************)
(* No tick is lost: as long as no run has started after it, its event      *)
(* waits in the dispatcher or a webhook is on its way that ParseWebhook    *)
(* turns into an event, whether the author lookup succeeds or fails.       *)
(***************************************************************************)
THEOREM TicksAreNeverLost == Spec => []NoTickIsLost
<1>1. WebhooksInv => NoTickIsLost
  BY DEF WebhooksInv
<1> QED
  BY <1>1, WebhooksInvariance, PTL

(***************************************************************************)
(* Only a sender that knows a secret triggers (gitlab.go: authorizeWebhook,*)
(* github.go: ParseWebhook), in every valid combination of secrets.        *)
(***************************************************************************)
THEOREM StrangersAreRefused == Spec => StrangersNeverTrigger
<1>1. WebhooksInv /\ [Next]_vars => [\A k \in 1..Len(inbox) : Accept(k) => inbox[k].sent]_vars
  <2> SUFFICES ASSUME WebhooksInv, NEW k \in 1..Len(inbox), Accept(k)
               PROVE  inbox[k].sent
    OBVIOUS
  <2>1. Authorized(inbox[k].headers)
    BY DEF Accept, ParseWebhook
  <2>2. inbox[k].headers.signature = "good" \/ inbox[k].headers.token = "good"
    BY <2>1 DEF Authorized, AuthorizeWebhook
  <2> QED
    BY <2>2 DEF WebhooksInv, ForgeriesLackSecrets
<1> QED
  BY WebhooksInvariance, <1>1, PTL DEF Spec, StrangersNeverTrigger

(***************************************************************************)
(* An edit of a description becomes an event only when it ticked a box,    *)
(* and on gitlab no other edit does (mrTicked, prTicked, tickedPlain).     *)
(***************************************************************************)
THEOREM DescriptionTicksOnly == Spec => DescriptionEventsAreTicks
<1>1. WebhooksInv /\ [Next]_vars =>
        [\A k \in 1..Len(inbox) :
           Accept(k) /\ inbox[k].type # "push" /\ (inbox[k].edited \/ cfg.platform = "gitlab")
             => SomeBoxTicked(inbox[k])]_vars
  <2> SUFFICES ASSUME WebhooksInv, NEW k \in 1..Len(inbox), Accept(k), inbox[k].type # "push",
                      inbox[k].edited \/ cfg.platform = "gitlab"
               PROVE  SomeBoxTicked(inbox[k])
    OBVIOUS
  <2> DEFINE w == inbox[k]
  <2>1. PICK looked \in BOOLEAN : Ticked(w, looked)
    BY DEF Accept, ParseWebhook
  <2>2. w.edited /\ CurrentBody(w) = w.new /\ PreviousBody(w) = w.old
    BY <2>1 DEF Ticked, CurrentBody, PreviousBody
  <2>3. w \in Message
    BY DEF WebhooksInv, TypeOK
  <2>4. w.old \in Text /\ w.new \in Text
    BY <2>3 DEF Message
  <2>5. /\ w.old # NoText /\ w.new # NoText
        /\ w.old.plain \in Nat /\ w.old.marked \in Nat /\ w.new.plain \in Nat /\ w.new.marked \in Nat
    BY <2>4, TextAssumption, BoundAssumption DEF Text
  <2> HIDE DEF w
  <2>6. SomeBoxTicked(w)
    BY <2>1, <2>2, <2>5 DEF Ticked, CheckedItems, CheckedMarkerItems, SomeBoxTicked
  <2> QED
    BY <2>6 DEF w
<1> QED
  BY WebhooksInvariance, <1>1, PTL DEF Spec, DescriptionEventsAreTicks
================================================================================
