------------------------------ MODULE Newsroom ------------------------------
(***************************************************************************)
(* What the administrators publish and who asked to read it: the newsroom's *)
(* articles with their slugs, vacancies and cars, and the newsletter's      *)
(* subscriptions and requests to leave it.                                  *)
(***************************************************************************)
EXTENDS Handlers

CONSTANTS
    Articles, Vacancies, Cars, Subscriptions, Departing,  \* documents that may come to exist
    Titles,
    Slug,        \* toSlug of a title
    Readers,     \* addresses
    MaxCounter   \* bound: the numbers tried for a slug

ASSUME NewsroomAssumptions ==
    /\ DOMAIN Slug = Titles
    /\ None \notin Articles \cup Titles \cup Readers

VARIABLES
    title, slug,   \* of an article; None: there is no such document
    listings,      \* vacancies and cars that are stored
    public,        \* articles, vacancies and cars shown to the public
    removed,       \* what was deleted; an id is never used again
    subscriber,    \* of a subscription; None: there is no such document
    leaving        \* a request to unsubscribe; None: there is no such document

newsVars == <<title, slug, listings, public, removed, subscriber, leaving>>
mailing == <<subscriber, leaving>>

Slugs == {Slug[n] : n \in Titles} \X Nat   \* 0: without a number

NewsTypeOK ==
    /\ title \in [Articles -> Titles \cup {None}]
    /\ slug \in [Articles -> Slugs \cup {None}]
    /\ listings \subseteq Vacancies \cup Cars
    /\ public \subseteq Articles \cup listings
    /\ removed \subseteq Articles \cup Vacancies \cup Cars \cup Subscriptions \cup Departing
    /\ subscriber \in [Subscriptions -> Readers \cup {None}]
    /\ leaving \in [Departing -> {None} \cup
           [reader : Readers, status : {"pending", "processed"}, reopened : BOOLEAN]]

NewsInit ==
    /\ title = [a \in Articles |-> None] /\ slug = title
    /\ listings = {} /\ public = {} /\ removed = {}
    /\ subscriber = [s \in Subscriptions |-> None]
    /\ leaving = [d \in Departing |-> None]

(* The operations, by the names their requests have. *)
NewsOperations ==
    {"createArticle", "updateArticle", "togglePublic", "subscribe", "requestUnsubscribe"}

Written == {a \in Articles : title[a] # None}
Stocked == Written \cup listings

-----------------------------------------------------------------------------
(* createArticle, updateArticle and the toggles of what the public sees. *)
PublicAsked(op, at, a, n) ==
    [op |-> op, at |-> at, id |-> a, title |-> n, n |-> 0,
     was |-> None, shown |-> FALSE]

NewsAsk(t) ==
    /\ \/ \E n \in Titles : Start(t, PublicAsked("createArticle", "slug", None, n))
       \/ \E a \in Written, n \in Titles : Start(t, PublicAsked("updateArticle", "find", a, n))
       \/ \E a \in Stocked : Start(t, PublicAsked("togglePublic", "find", a, None))
    /\ UNCHANGED <<newsVars, overlapped>>

(* What was read of an article, until what was modified is saved. *)
Retitling(u, a) == u.op = "updateArticle" /\ u.at \in {"slug", "save"} /\ u.id = a

ArticleFind(t) ==
    LET r == req[t] IN
    /\ At(t, "updateArticle", "find")
    /\ \/ r.id \notin Written /\ Finish(t) /\ UNCHANGED overlapped
       \/ /\ r.id \in Written
          /\ Continue(t, [r EXCEPT !.at = IF r.title = title[r.id] THEN "save" ELSE "slug",
                                   !.was = IF r.title = title[r.id] THEN None ELSE slug[r.id],
                                   !.shown = r.id \in public])
          /\ Overlap(t, "title", LAMBDA u : Retitling(u, r.id))
    /\ UNCHANGED newsVars

(* The search for a free slug, one findOne at a time: no number, 2, 3, ... *)
SlugTaken(r) == \E a \in Articles \ {r.id} : slug[a] = <<Slug[r.title], r.n>>

ArticleSlug(t) ==
    LET r == req[t] IN
    /\ r.op \in {"createArticle", "updateArticle"} /\ r.at = "slug"
    /\ IF SlugTaken(r)
       THEN r.n < MaxCounter /\ Continue(t, [r EXCEPT !.n = IF @ = 0 THEN 2 ELSE @ + 1])
       ELSE Continue(t, [r EXCEPT !.at = "save"])
    /\ UNCHANGED <<newsVars, overlapped>>

(* create: the index on slug is unique, or it throws. *)
ArticleCreate(t) ==
    LET r == req[t] IN
    /\ At(t, "createArticle", "save")
    /\ Finish(t)
    /\ \/ SlugTaken(r) /\ UNCHANGED <<title, slug, public>>
       \/ \E a \in Fresh((Articles \ Written) \ removed), show \in BOOLEAN :
          /\ ~SlugTaken(r)
          /\ title' = [title EXCEPT ![a] = r.title]
          /\ slug' = [slug EXCEPT ![a] = <<Slug[r.title], r.n>>]
          /\ public' = IF show THEN public \cup {a} ELSE public
    /\ UNCHANGED <<listings, removed, mailing, overlapped>>

(* save writes what differs from what was read. *)
Flipped(r) == IF r.shown THEN public \ {r.id} ELSE public \cup ({r.id} \cap Stocked)

\* Mutant of ArticleSave: the slug an article was created with stays.
ArticleSaveTitle(t) ==
    LET r == req[t] IN
    /\ At(t, "updateArticle", "save")
    /\ Finish(t)
    /\ r.id \in Written
    /\ title' = [title EXCEPT ![r.id] = r.title]
    /\ public' \in {public, Flipped(r)}
    /\ UNCHANGED <<slug, listings, removed, mailing, overlapped>>

ArticleSave(t) ==
    LET r == req[t]
        retitled == r.was # None
        k == <<Slug[r.title], r.n>>
        moved == retitled /\ k # r.was IN
    /\ At(t, "updateArticle", "save")
    /\ Finish(t)
    /\ \/ /\ r.id \notin Written \/ (moved /\ SlugTaken(r))
          /\ UNCHANGED <<title, slug, public>>
       \/ /\ r.id \in Written /\ ~(moved /\ SlugTaken(r))
          /\ title' = IF retitled THEN [title EXCEPT ![r.id] = r.title] ELSE title
          /\ slug' = IF moved THEN [slug EXCEPT ![r.id] = k] ELSE slug
          /\ public' \in {public, Flipped(r)}   \* isPublished was sent, or not
    /\ UNCHANGED <<listings, removed, mailing, overlapped>>

(* togglePublish, toggleCareerJob and toggleAvailability: findById, then save. *)
ToggleFindPublic(t) ==
    LET r == req[t] IN
    /\ At(t, "togglePublic", "find")
    /\ IF r.id \in Stocked
       THEN Continue(t, [r EXCEPT !.at = "save", !.shown = r.id \in public])
       ELSE Finish(t)
    /\ UNCHANGED <<newsVars, overlapped>>

ToggleSavePublic(t) ==
    /\ At(t, "togglePublic", "save")
    /\ Finish(t)
    /\ public' = Flipped(req[t])
    /\ UNCHANGED <<title, slug, listings, removed, mailing, overlapped>>

(* createCareerJob, and CarService's create and update: one call each.  (A job's
   update writes nothing of what is modelled.) *)
ListingSave ==
    /\ "togglePublic" \in shift
    /\ \E v \in (Vacancies \cup Cars) \ removed, show \in BOOLEAN :
          /\ v \in Vacancies => show /\ v \notin listings
          /\ listings' = listings \cup {v}
          /\ public' = IF show THEN public \cup {v} ELSE public \ {v}
    /\ UNCHANGED <<handlers, title, slug, removed, mailing>>

(* deleteArticle, deleteCareerJob and CarService.remove. *)
PublicDelete(a) ==
    /\ "togglePublic" \in shift
    /\ a \in Stocked
    /\ title' = [b \in Articles |-> IF b = a THEN None ELSE title[b]]
    /\ slug' = [b \in Articles |-> IF b = a THEN None ELSE slug[b]]
    /\ listings' = listings \ {a} /\ public' = public \ {a} /\ removed' = removed \cup {a}
    /\ UNCHANGED <<handlers, mailing>>

-----------------------------------------------------------------------------
(* subscribe and requestUnsubscribe: findOne, then create. *)
MailingAsk(t) ==
    /\ \E op \in {"subscribe", "requestUnsubscribe"}, e \in Readers :
          Start(t, [op |-> op, at |-> "find", reader |-> e])
    /\ UNCHANGED <<newsVars, overlapped>>

Subscribed(e) == \E s \in Subscriptions : subscriber[s] = e

SubscribeFind(t) ==
    LET r == req[t] IN
    /\ At(t, "subscribe", "find")
    /\ IF Subscribed(r.reader) THEN Finish(t) ELSE Continue(t, [r EXCEPT !.at = "save"])
    /\ UNCHANGED <<newsVars, overlapped>>

(* The index on email is unique, or the create throws. *)
SubscribeCreate(t) ==
    LET r == req[t] IN
    /\ At(t, "subscribe", "save")
    /\ Finish(t)
    /\ \/ Subscribed(r.reader) /\ UNCHANGED subscriber
       \/ \E s \in Fresh({s \in Subscriptions \ removed : subscriber[s] = None}) :
          /\ ~Subscribed(r.reader)
          /\ subscriber' = [subscriber EXCEPT ![s] = r.reader]
    /\ UNCHANGED <<title, slug, listings, public, removed, leaving, overlapped>>

Pending(d) == leaving[d] # None /\ leaving[d].status = "pending"

LeaveCreating(u, e) == u.op = "requestUnsubscribe" /\ u.at = "save" /\ u.reader = e

\* Mutant of LeaveFind: a pending request is not looked for.
LeaveFindNone(t) ==
    LET r == req[t] IN
    /\ At(t, "requestUnsubscribe", "find")
    /\ Continue(t, [r EXCEPT !.at = "save"])
    /\ Overlap(t, "leave", LAMBDA u : LeaveCreating(u, r.reader))
    /\ UNCHANGED newsVars

LeaveFind(t) ==
    LET r == req[t]
        waiting == {d \in Departing : Pending(d) /\ leaving[d].reader = r.reader} IN
    /\ At(t, "requestUnsubscribe", "find")
    /\ \/ waiting # {} /\ Finish(t) /\ UNCHANGED overlapped
       \/ /\ waiting = {}
          /\ Continue(t, [r EXCEPT !.at = "save"])
          /\ Overlap(t, "leave", LAMBDA u : LeaveCreating(u, r.reader))
    /\ UNCHANGED newsVars

(* No index stops a second one. *)
LeaveCreate(t) ==
    /\ At(t, "requestUnsubscribe", "save")
    /\ Finish(t)
    /\ \E d \in Fresh({d \in Departing \ removed : leaving[d] = None}) :
          /\ leaving' = [leaving EXCEPT ![d] =
                [reader |-> req[t].reader, status |-> "pending", reopened |-> FALSE]]
    /\ UNCHANGED <<title, slug, listings, public, removed, subscriber, overlapped>>

(* updateUnsubscribeRequest: either status, whatever it was. *)
LeaveUpdate(d) ==
    /\ "requestUnsubscribe" \in shift
    /\ leaving[d] # None
    /\ \E s \in {"pending", "processed"} :
          leaving' = [leaving EXCEPT ![d].status = s,
                                     ![d].reopened = @ \/ (~Pending(d) /\ s = "pending")]
    /\ UNCHANGED <<handlers, title, slug, listings, public, removed, subscriber>>

(* deleteSubscriber and deleteUnsubscribeRequest: the subscription outlives the
   request to end it until an administrator deletes it, and the other way round. *)
MailingDelete(x) ==
    /\ \/ /\ "subscribe" \in shift /\ x \in Subscriptions /\ subscriber[x] # None
          /\ subscriber' = [subscriber EXCEPT ![x] = None]
          /\ UNCHANGED leaving
       \/ /\ "requestUnsubscribe" \in shift /\ x \in Departing /\ leaving[x] # None
          /\ leaving' = [leaving EXCEPT ![x] = None]
          /\ UNCHANGED subscriber
    /\ removed' = removed \cup {x}
    /\ UNCHANGED <<handlers, title, slug, listings, public>>

-----------------------------------------------------------------------------
NewsStep(t) ==
    \/ NewsAsk(t) \/ ArticleFind(t) \/ ArticleSlug(t) \/ ArticleCreate(t) \/ ArticleSave(t)
    \/ ToggleFindPublic(t) \/ ToggleSavePublic(t)
    \/ MailingAsk(t) \/ SubscribeFind(t) \/ SubscribeCreate(t) \/ LeaveFind(t) \/ LeaveCreate(t)

NewsNext ==
    \/ \E t \in Requests : NewsStep(t)
    \/ ListingSave
    \/ \E a \in Articles \cup Vacancies \cup Cars : PublicDelete(a)
    \/ \E d \in Departing : LeaveUpdate(d)
    \/ \E x \in Subscriptions \cup Departing : MailingDelete(x)

NewsSpec == HandlersInit /\ NewsInit /\ [][NewsNext]_<<handlers, newsVars>>

-----------------------------------------------------------------------------
(* An article's slug is made of the title it has, although a slug that turned out
   to be the one read is not written (newsroom.service.ts:227), unless two edits
   of the article overlapped. *)
SlugFollowsTitle ==
    "title" \notin overlapped => \A a \in Written : slug[a][1] = Slug[title[a]]

(* A reader has one request to unsubscribe waiting (newsletter.service.ts:85),
   unless two overlapped or an administrator opened one again. *)
OnePendingRequest ==
    "leave" \notin overlapped => \A d, e \in Departing :
        /\ d # e /\ Pending(d) /\ Pending(e)
        /\ leaving[d].reader = leaving[e].reader
        => leaving[d].reopened \/ leaving[e].reopened
=============================================================================
