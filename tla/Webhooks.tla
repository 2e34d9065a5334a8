------------------------------ MODULE Webhooks ------------------------------
(***************************************************************************)
(* From a checkbox to a run: the webhook handler of internal/server and    *)
(* ParseWebhook of the gitlab and github adapters, closed by the parties   *)
(* at both ends.  Users and renovate itself edit one document (a merge     *)
(* request or the dashboard issue) of one repository and push to it, the   *)
(* hosting platform sends a webhook for every edit and push, in any order, *)
(* an accepted event is a Request of RepoRuns, and renovate edits again    *)
(* while its run is in flight.                                             *)
(*                                                                         *)
(* A description is told apart by what the regular expressions of          *)
(* checkbox.go count in it: its checked items, with and without a marker.  *)
(***************************************************************************)
EXTENDS SequencesExt

CONSTANTS
    Platform,    \* adapters: a subset of {"gitlab", "github"}
    TheRepo,     \* the repository
    NoText,      \* the empty description
    MaxBoxes,    \* bound: checked items of each kind
    MaxInbox,    \* bound: webhooks on their way
    MaxActs      \* bound: actions of people (renovate's are not bounded)

ASSUME PlatformAssumption == Platform \subseteq {"gitlab", "github"}
ASSUME BoundAssumption == MaxBoxes \in Nat \ {0} /\ MaxInbox \in Nat /\ MaxActs \in Nat

VARIABLES
    cfg,       \* the platform's configuration, fixed
    doc,       \* the description of the document
    inbox,     \* webhooks on their way
    author,    \* gitlab's usernames cache for the document's author: "unset" or the "name"
    pending,   \* RepoRuns: an accepted event waits for a run
    running,   \* RepoRuns: a run is in flight
    worked,    \* the run in flight has made its edit or push (at most one)
    acts,      \* actions of people so far
    asked      \* history variable: a tick that no run has started after

vars == <<cfg, doc, inbox, author, pending, running, worked, acts, asked>>
runVars == <<pending, running, worked>>

\* The dispatcher, by its promise.
Runs == INSTANCE RepoRuns WITH Repo <- {TheRepo}, phase <- "up", enabled <- {TheRepo}

Text == [plain : 0..MaxBoxes, marked : 0..MaxBoxes]

ASSUME TextAssumption == NoText \notin Text

Document == {"merge_request", "issue"}

(***************************************************************************)
(* Of the configuration: the events field, allowAnyCheckbox, whether       *)
(* botEmail is set, the groups and the secrets.  The document is known as  *)
(* renovate's always (debug marker, branch prefix, dashboard title), by    *)
(* its author only, or not at all.                                         *)
(***************************************************************************)
Config ==
    [platform : Platform, document : Document, events : SUBSET (Document \union {"push"}),
     allowAnyCheckbox : BOOLEAN, known : {"always", "author", "no"}, botEmail : BOOLEAN,
     groups : {"none", "inside", "outside"}, secret : BOOLEAN, signingSecret : BOOLEAN]

\* What config.validate lets through, less what tells nothing new apart.
Valid(c) ==
    /\ c.secret \/ c.signingSecret
    /\ c.platform = "github" => c.secret /\ ~c.signingSecret
    /\ c.known = "author" => c.document = "merge_request"
    /\ c.events \subseteq {c.document, "push"}

(***************************************************************************)
(* A webhook: an edit of the document (edited tells whether the            *)
(* description is among the changes), or a push.  The headers are a        *)
(* signature and a token; sent tells whether the platform sent it.         *)
(***************************************************************************)
Headers == [signature : {"good", "bad", "none"}, token : {"good", "bad", "none"}]

Edit(old, new, edited, sent, headers) ==
    [type |-> cfg.document, old |-> old, new |-> new, edited |-> edited,
     sent |-> sent, headers |-> headers]

Push(byBot, onDefault, sent, headers) ==
    [type |-> "push", byBot |-> byBot, onDefault |-> onDefault, sent |-> sent, headers |-> headers]

Message ==
    [type : Document, old : Text, new : Text, edited : BOOLEAN, sent : BOOLEAN, headers : Headers]
        \union
    [type : {"push"}, byBot : BOOLEAN, onDefault : BOOLEAN, sent : BOOLEAN, headers : Headers]

\* How the platform signs: github with the secret, gitlab with a signing
\* token where one is configured and with the secret token otherwise.
Genuine ==
    [signature |-> IF cfg.platform = "github" \/ cfg.signingSecret THEN "good" ELSE "none",
     token |-> IF cfg.platform = "gitlab" /\ cfg.secret THEN "good" ELSE "none"]

Init ==
    /\ cfg \in {c \in Config : Valid(c)}
    /\ doc \in Text
    /\ inbox = <<>>
    /\ author = "unset"
    /\ pending = {}
    /\ running = {}
    /\ worked = FALSE
    /\ acts = 0
    /\ asked = FALSE

------------------------------------------------------------------------------
(***************************************************************************)
(* ParseWebhook.                                                           *)
(***************************************************************************)
CheckedItems(t) == IF t = NoText THEN 0 ELSE t.plain + t.marked
CheckedMarkerItems(t) == IF t = NoText THEN 0 ELSE t.marked

\* Mutation: an empty secret is compared like any other.
AuthorizeEmptySecret(h) ==
    IF cfg.signingSecret /\ h.signature # "none"
      THEN h.signature = "good"
      ELSE h.token = IF cfg.secret THEN "good" ELSE "none"

\* authorizeWebhook: the signature counts when there is one and a signing
\* secret to check it, else the token has to match a secret.
AuthorizeWebhook(h) ==
    IF cfg.signingSecret /\ h.signature # "none"
      THEN h.signature = "good"
      ELSE cfg.secret /\ h.token = "good"

Authorized(h) ==
    IF cfg.platform = "github" THEN h.signature = "good" ELSE AuthorizeWebhook(h)

\* The description before the edit: the changes hold it only when it changed.
PreviousBody(w) == IF w.edited THEN w.old ELSE NoText

\* Mutation: gitlab's description is taken from the object, not from the changes.
CurrentBodyOfObject(w) == w.new

\* The description after the edit: github sends it always, gitlab among the changes.
CurrentBody(w) == IF w.edited \/ cfg.platform = "github" THEN w.new ELSE NoText

\* isRenovateMR, isRenovatePR and the dashboard test of issues.  looked: the
\* author's name is at hand.
Identified(looked) ==
    \/ cfg.allowAnyCheckbox
    \/ cfg.known = "always"
    \/ cfg.known = "author" /\ looked

\* Mutation: ticks are counted by their markers only.
TickedMarker(w, looked) ==
    /\ CurrentBody(w) # NoText
    /\ CheckedMarkerItems(CurrentBody(w)) > CheckedMarkerItems(PreviousBody(w))

\* mrTicked, prTicked, and the same decision for issues.
Ticked(w, looked) ==
    /\ CurrentBody(w) # NoText
    /\ IF Identified(looked)
         THEN CheckedItems(CurrentBody(w)) > CheckedItems(PreviousBody(w))
         ELSE CheckedMarkerItems(CurrentBody(w)) > CheckedMarkerItems(PreviousBody(w))

\* Mutation: the pusher is not compared with botEmail.
PushCountsFromAnyone(w) == w.onDefault

PushCounts(w) == ~(cfg.botEmail /\ w.byBot) /\ w.onDefault

\* With no groups every repository is allowed.
RepoAllowed == cfg.groups \in {"none", "inside"}

\* ParseWebhook of either adapter: TRUE when it returns an event.
ParseWebhook(w, looked) ==
    /\ Authorized(w.headers)
    /\ w.type \in cfg.events
    /\ IF w.type = "push" THEN PushCounts(w) ELSE Ticked(w, looked)
    /\ RepoAllowed

(***************************************************************************)
(* authorUsername is asked for: gitlab, nothing else identifies the merge  *)
(* request, and the name is not cached.  The call may fail; a name that    *)
(* was found is kept for the life of the process.                          *)
(***************************************************************************)
LooksUp(w) ==
    /\ cfg.platform = "gitlab" /\ cfg.known = "author"
    /\ ~cfg.allowAnyCheckbox
    /\ author = "unset"
    /\ Authorized(w.headers)
    /\ w.type = "merge_request" /\ w.type \in cfg.events
    /\ CurrentBody(w) # NoText

\* Mutation: a failed lookup is cached as an empty name.
ReceiveCachesFailure(k, looked) ==
    /\ inbox' = RemoveAt(inbox, k)
    /\ IF LooksUp(inbox[k])
         THEN author' = IF looked THEN "name" ELSE ""
         ELSE looked = (author = "name" \/ cfg.platform = "github") /\ UNCHANGED author
    /\ UNCHANGED <<cfg, doc, worked, acts, asked>>

Receive(k, looked) ==
    /\ inbox' = RemoveAt(inbox, k)
    /\ IF LooksUp(inbox[k])
         THEN author' = IF looked THEN "name" ELSE "unset"
         ELSE looked = (author = "name" \/ cfg.platform = "github") /\ UNCHANGED author
    /\ UNCHANGED <<cfg, doc, worked, acts, asked>>

\* The handler accepts the webhook and enqueues its event.
Accept(k) ==
    \E looked \in BOOLEAN :
        /\ ParseWebhook(inbox[k], looked)
        /\ Receive(k, looked)
        /\ Runs!Request(TheRepo)

\* The handler answers unauthorized, invalid or ignored.
Refuse(k) ==
    \E looked \in BOOLEAN :
        /\ ~ParseWebhook(inbox[k], looked)
        /\ Receive(k, looked)
        /\ UNCHANGED <<pending, running>>

\* triggerHandler, for an authorised request.
ManualTrigger ==
    /\ acts < MaxActs
    /\ acts' = acts + 1
    /\ RepoAllowed
    /\ Runs!Request(TheRepo)
    /\ UNCHANGED <<cfg, doc, inbox, author, worked, asked>>

------------------------------------------------------------------------------
(***************************************************************************)
(* People, strangers and renovate.                                         *)
(***************************************************************************)
Send(w) ==
    /\ Len(inbox) < MaxInbox
    /\ inbox' = Append(inbox, w)

\* An edit from old to new that is a tick whichever way it is counted: of any
\* box in a document known as renovate's, of a marked box in others.
IsTick(old, new) ==
    IF cfg.allowAnyCheckbox \/ cfg.known = "always"
      THEN CheckedItems(new) > CheckedItems(old)
      ELSE new.marked > old.marked /\ CheckedItems(new) > CheckedItems(old)

\* Somebody edits the description: ticks, unticks, adds and removes items.
PersonEdits ==
    /\ acts < MaxActs
    /\ acts' = acts + 1
    /\ \E new \in Text :
         /\ doc' = new
         /\ Send(Edit(doc, new, TRUE, TRUE, Genuine))
         /\ asked' = (asked \/ (IsTick(doc, new) /\ RepoAllowed /\ cfg.document \in cfg.events))
    /\ UNCHANGED <<cfg, author, runVars>>

\* Somebody changes the title and nothing else.
PersonRetitles ==
    /\ acts < MaxActs
    /\ acts' = acts + 1
    /\ Send(Edit(doc, doc, FALSE, TRUE, Genuine))
    /\ UNCHANGED <<cfg, doc, author, runVars, asked>>

PersonPushes ==
    /\ acts < MaxActs
    /\ acts' = acts + 1
    /\ \E onDefault \in BOOLEAN : Send(Push(FALSE, onDefault, TRUE, Genuine))
    /\ UNCHANGED <<cfg, doc, author, runVars, asked>>

\* A request that claims an edit nobody made, without knowing a secret.
StrangerPosts ==
    /\ acts < MaxActs
    /\ acts' = acts + 1
    /\ \E h \in {g \in Headers : g.signature # "good" /\ g.token # "good"} :
         Send(Edit([plain |-> 0, marked |-> 0], [plain |-> 1, marked |-> 1], TRUE, FALSE, h))
    /\ UNCHANGED <<cfg, doc, author, runVars, asked>>

\* The dispatcher, by what RepoRuns promises of it: run begins and ends.
RunStarts ==
    /\ TheRepo \in pending
    /\ Runs!Start(TheRepo)
    /\ worked' = FALSE
    /\ asked' = FALSE
    /\ UNCHANGED <<cfg, doc, inbox, author, acts>>

\* Renovate unticks what it has done or rewrites the rest of the description.
RenovateEdits ==
    /\ TheRepo \in running /\ ~worked
    /\ worked' = TRUE
    /\ \E new \in {doc, [doc EXCEPT !.marked = 0]} :
         /\ doc' = new
         /\ Send(Edit(doc, new, TRUE, TRUE, Genuine))
    /\ UNCHANGED <<cfg, author, pending, running, acts, asked>>

RenovateRetitles ==
    /\ TheRepo \in running /\ ~worked
    /\ worked' = TRUE
    /\ Send(Edit(doc, doc, FALSE, TRUE, Genuine))
    /\ UNCHANGED <<cfg, doc, author, pending, running, acts, asked>>

\* To a branch of its own, or to the default branch (automerge).
RenovatePushes ==
    /\ TheRepo \in running /\ ~worked
    /\ worked' = TRUE
    /\ \E onDefault \in BOOLEAN : Send(Push(TRUE, onDefault, TRUE, Genuine))
    /\ UNCHANGED <<cfg, doc, author, pending, running, acts, asked>>

RunEnds ==
    /\ Runs!Finish(TheRepo)
    /\ worked' = FALSE
    /\ UNCHANGED <<cfg, doc, inbox, author, acts, asked>>

------------------------------------------------------------------------------
Deliver(k) == Accept(k) \/ Refuse(k)

People == PersonEdits \/ PersonRetitles \/ PersonPushes \/ StrangerPosts \/ ManualTrigger

Renovate == RenovateEdits \/ RenovateRetitles \/ RenovatePushes

Next ==
    \/ \E k \in 1..Len(inbox) : Deliver(k)
    \/ People
    \/ Renovate
    \/ RunStarts
    \/ RunEnds

(***************************************************************************)
(* Fairness: the oldest webhook on its way arrives, and by the promise of  *)
(* RepoRuns an accepted event is followed by a run and every run ends.     *)
(***************************************************************************)
Fairness ==
    /\ WF_vars(inbox # <<>> /\ Deliver(1))
    /\ WF_vars(RunStarts)
    /\ WF_vars(RunEnds)

Spec == Init /\ [][Next]_vars /\ Fairness

------------------------------------------------------------------------------
(***************************************************************************)
(* Properties.                                                             *)
(***************************************************************************)
TypeOK ==
    /\ cfg \in Config
    /\ doc \in Text
    /\ inbox \in Seq(Message) /\ Len(inbox) <= MaxInbox
    /\ author \in {"unset", "name"}
    /\ pending \subseteq {TheRepo} /\ running \subseteq {TheRepo}
    /\ worked \in BOOLEAN
    /\ acts \in 0..MaxActs
    /\ asked \in BOOLEAN

(***************************************************************************)
(* No event without a sender that knows a configured secret, in any of the *)
(* secret, signing secret and mixed setups of authorizeWebhook.            *)
(***************************************************************************)
StrangersNeverTrigger ==
    [][\A k \in 1..Len(inbox) : Accept(k) => inbox[k].sent]_vars

\* The edit of webhook w left a box checked that was not, of one kind or the other.
SomeBoxTicked(w) == w.new.plain > w.old.plain \/ w.new.marked > w.old.marked

(***************************************************************************)
(* "description edits where a Renovate checkbox got ticked" (README.md:12),*)
(* "a tick is a transition where the checked count increases"              *)
(* (checkbox.go:29-30): a webhook about the document becomes an event only *)
(* when its edit ticked a box.                                             *)
(***************************************************************************)
EventsAreTicks ==
    [][\A k \in 1..Len(inbox) :
         Accept(k) /\ inbox[k].type # "push" => SomeBoxTicked(inbox[k])]_vars

(***************************************************************************)
(* What both adapters guarantee: so it is for every edit of a description, *)
(* and on gitlab for every edit.                                           *)
(***************************************************************************)
DescriptionEventsAreTicks ==
    [][\A k \in 1..Len(inbox) :
         Accept(k) /\ inbox[k].type # "push" /\ (inbox[k].edited \/ cfg.platform = "gitlab")
           => SomeBoxTicked(inbox[k])]_vars

(***************************************************************************)
(* Renovate's own edits and pushes do not keep it running: once people     *)
(* leave the repository alone its runs cease, provided that the bot's      *)
(* pushes are recognised.  (On github a change of title counts as a tick   *)
(* while a box is checked: EventsAreTicks.)                                *)
(***************************************************************************)
RunsSettle ==
    cfg.platform = "gitlab" /\ (cfg.botEmail \/ "push" \notin cfg.events)
        => <>[](running = {})

(***************************************************************************)
(* Every tick in a configured document is followed by a run that starts    *)
(* after it, whatever edits of renovate and of other people, pushes and    *)
(* failed author lookups come in between, and in whatever order the        *)
(* webhooks arrive.                                                        *)
(***************************************************************************)
EveryTickIsServed == asked ~> ~asked

------------------------------------------------------------------------------
(***************************************************************************)
(* The inductive invariant behind the safety properties.                   *)
(***************************************************************************)

\* A webhook the platform did not send carries no good signature and no good token.
ForgeriesLackSecrets ==
    \A k \in 1..Len(inbox) :
        ~inbox[k].sent =>
            inbox[k].headers.signature # "good" /\ inbox[k].headers.token # "good"

(***************************************************************************)
(* The part of EveryTickIsServed that needs no fairness: until a run has   *)
(* started after a tick, an accepted event waits for one, or a webhook is  *)
(* on its way that the handler accepts whatever the author lookup says.    *)
(***************************************************************************)
NoTickIsLost ==
    asked =>
        \/ TheRepo \in pending
        \/ \E k \in 1..Len(inbox) : \A looked \in BOOLEAN : ParseWebhook(inbox[k], looked)

WebhooksInv == TypeOK /\ Valid(cfg) /\ ForgeriesLackSecrets /\ NoTickIsLost
================================================================================
