------------------------- MODULE FrontOffice_proofs -------------------------
(***************************************************************************)
(* Proofs about FrontOffice: what each service guarantees on its own, it   *)
(* guarantees beside the others and whenever the process dies.  The        *)
(* newsroom and the leads come first, each with its invariant; what riders *)
(* use has a module of its own.                                            *)
(***************************************************************************)
EXTENDS FrontOffice, RiderServices_proofs

-----------------------------------------------------------------------------
(* The newsroom and the mailing list: what their requests carry. *)
PublicRequest ==
    [op : {"createArticle", "updateArticle", "togglePublic"}, at : {"find", "slug", "save"},
     id : Articles \cup Vacancies \cup Cars \cup {None}, title : Titles \cup {None}, n : Nat,
     was : Slugs \cup {None}, shown : BOOLEAN]

MailingRequest ==
    [op : {"subscribe", "requestUnsubscribe"}, at : {"find", "save"}, reader : Readers]

NewsTyping(r) ==
    /\ r.op \in {"createArticle", "updateArticle", "togglePublic"} => r \in PublicRequest
    /\ r.op \in {"createArticle", "updateArticle"} => r.title \in Titles
    /\ r.op = "updateArticle" => r.id \in Articles
    /\ r.op \in {"subscribe", "requestUnsubscribe"} => r \in MailingRequest

(* An article that is being edited was stored. *)
EditsStored(r) == r.op = "updateArticle" => r.id \in Written \cup removed

NewsRequests == \A t \in Requests : NewsTyping(req[t]) /\ EditsStored(req[t])

RetitlingRead(r) ==
    r.op = "updateArticle" /\ r.at \in {"slug", "save"} /\ r.id \in Written /\ r.was # None
        => r.was = slug[r.id]

(* While no two edits of an article overlapped, the slug one has read is still the
   article's. *)
TitleInv ==
    "title" \notin overlapped =>
        /\ \A t, u \in Requests, a \in Articles :
              Retitling(req[t], a) /\ Retitling(req[u], a) => t = u
        /\ \A t \in Requests : RetitlingRead(req[t])

(* While no two requests of a reader overlapped, one about to be stored is the only
   one, but for those an administrator opened again. *)
LeaveInv ==
    "leave" \notin overlapped =>
        /\ \A t, u \in Requests, e \in Readers :
              LeaveCreating(req[t], e) /\ LeaveCreating(req[u], e) => t = u
        /\ \A t \in Requests, d \in Departing :
              Pending(d) /\ LeaveCreating(req[t], leaving[d].reader) => leaving[d].reopened

NewsInv ==
    /\ NewsTypeOK /\ NewsRequests
    /\ TitleInv /\ SlugFollowsTitle /\ LeaveInv /\ OnePendingRequest

NewsAside == Foreign(NewsOperations) /\ UNCHANGED newsVars

LEMMA NewsInvInit == HandlersInit /\ NewsInit => NewsInv
<1> SUFFICES ASSUME HandlersInit, NewsInit PROVE NewsInv
  OBVIOUS
<1>1. \A t \in Requests : req[t] = Idle
  BY DEF HandlersInit
<1>2. NewsTypeOK /\ Written = {} /\ \A d \in Departing : ~Pending(d)
  BY DEF NewsInit, NewsTypeOK, Written, Pending
<1>3. NewsRequests /\ TitleInv /\ LeaveInv
  BY <1>1, <1>2, IdleHasNoOperation
     DEF NewsRequests, NewsTyping, EditsStored, TitleInv, Retitling, RetitlingRead, LeaveInv,
         LeaveCreating
<1>4. SlugFollowsTitle /\ OnePendingRequest
  BY <1>2 DEF SlugFollowsTitle, OnePendingRequest
<1>5. QED
  BY <1>2, <1>3, <1>4 DEF NewsInv

(* Steps that write no document. *)
NewsReads(t) ==
    \/ NewsAsk(t) \/ ArticleFind(t) \/ ArticleSlug(t) \/ ToggleFindPublic(t)
    \/ MailingAsk(t) \/ SubscribeFind(t) \/ LeaveFind(t)

(* What an edit that begins, or a request to leave about to be stored, has found. *)
NewsFound(t) ==
    /\ \A a \in Articles : Retitling(req'[t], a) =>
          \/ Retitling(req[t], a) /\ req'[t].was = req[t].was
          \/ /\ req'[t].was # None => req'[t].was = slug[a]
             /\ "title" \notin overlapped' => \A u \in Requests \ {t} : ~Retitling(req[u], a)
    /\ \A e \in Readers : LeaveCreating(req'[t], e) =>
          /\ \A d \in Departing : ~(Pending(d) /\ leaving[d].reader = e)
          /\ "leave" \notin overlapped' => \A u \in Requests \ {t} : ~LeaveCreating(req[u], e)

LEMMA ReadOfPublic ==
  ASSUME NEW q \in PublicRequest, NEW s \in BOOLEAN
  PROVE  /\ [q EXCEPT !.at = "save", !.shown = s] \in PublicRequest
         /\ [q EXCEPT !.at = "save", !.shown = s].op = q.op
         /\ "op" \in DOMAIN [q EXCEPT !.at = "save", !.shown = s]
BY DEF PublicRequest

LEMMA NewsReadsOne ==
  ASSUME HandlersOK, NewsInv, NEW t \in Requests, NewsReads(t)
  PROVE  /\ UNCHANGED newsVars /\ overlapped \subseteq overlapped'
         /\ HandlersOK' /\ Moves(t, req'[t])
         /\ req'[t].op \in NewsOperations \cup {"none"}
         /\ NewsTyping(req'[t]) /\ EditsStored(req'[t]) /\ NewsFound(t)
<1> USE DEF NewsTyping, EditsStored, NewsFound, Retitling, LeaveCreating, NewsOperations, At
<1>1. NewsTyping(req[t]) /\ EditsStored(req[t])
  BY DEF NewsInv, NewsRequests
<1>2. CASE Finish(t)
  <2>1. HandlersOK' /\ Moves(t, Idle) /\ req'[t] = Idle
    BY <1>2, FinishMoves DEF Moves
  <2>2. UNCHANGED newsVars /\ overlapped \subseteq overlapped'
    BY DEF NewsReads, NewsAsk, ArticleFind, ArticleSlug, ToggleFindPublic, MailingAsk,
       SubscribeFind, LeaveFind, Overlap
  <2>3. QED
    BY <2>1, <2>2, IdleHasNoOperation
<1>3. CASE NewsAsk(t)
  <2>1. PICK op \in {"createArticle", "updateArticle", "togglePublic"}, at \in {"slug", "find"},
             a \in Articles \cup Vacancies \cup Cars \cup {None}, n \in Titles \cup {None} :
           /\ Start(t, PublicAsked(op, at, a, n))
           /\ op \in {"createArticle", "updateArticle"} => n \in Titles
           /\ op = "updateArticle" => a \in Written /\ at = "find"
    <3>1. Stocked \subseteq Articles \cup Vacancies \cup Cars /\ Written \subseteq Articles
      BY DEF Stocked, Written, NewsInv, NewsTypeOK
    <3>2. QED
      BY <1>3, <3>1 DEF NewsAsk
  <2> DEFINE r == PublicAsked(op, at, a, n)
  <2>2. /\ r \in PublicRequest /\ r.op = op /\ r.at = at /\ r.id = a /\ r.title = n
        /\ "op" \in DOMAIN r
    BY DEF PublicAsked, PublicRequest
  <2>3. HandlersOK' /\ Moves(t, r)
    BY <2>1, <2>2, StartMoves
  <2>4. NewsTyping(r) /\ EditsStored(r) /\ \A b : ~Retitling(r, b) /\ ~LeaveCreating(r, b)
    BY <2>1, <2>2 DEF Written
  <2>5. QED
    BY <1>3, <2>2, <2>3, <2>4 DEF NewsAsk, Moves
<1>4. CASE MailingAsk(t)
  <2>1. PICK op \in {"subscribe", "requestUnsubscribe"}, e \in Readers :
           Start(t, [op |-> op, at |-> "find", reader |-> e])
    BY <1>4 DEF MailingAsk
  <2> DEFINE r == [op |-> op, at |-> "find", reader |-> e]
  <2>2. "op" \in DOMAIN r /\ r \in MailingRequest /\ r.op = op /\ r.at = "find"
    BY DEF MailingRequest
  <2>3. HandlersOK' /\ Moves(t, r)
    BY <2>1, <2>2, StartMoves
  <2>4. QED
    BY <1>4, <2>2, <2>3 DEF MailingAsk, Moves
<1>5. CASE ArticleFind(t) /\ ~Finish(t)
  <2> DEFINE r == [req[t] EXCEPT
        !.at = IF req[t].title = title[req[t].id] THEN "save" ELSE "slug",
        !.was = IF req[t].title = title[req[t].id] THEN None ELSE slug[req[t].id],
        !.shown = req[t].id \in public]
  <2>1. /\ req[t] \in PublicRequest /\ req[t].op = "updateArticle" /\ req[t].id \in Written
        /\ Continue(t, r) /\ UNCHANGED newsVars
        /\ Overlap(t, "title", LAMBDA u : Retitling(u, req[t].id))
    BY <1>1, <1>5 DEF ArticleFind
  <2>2. slug[req[t].id] \in Slugs \cup {None}
    BY <2>1 DEF NewsInv, NewsTypeOK, Written
  <2>3. /\ r \in PublicRequest /\ "op" \in DOMAIN r
        /\ r.op = "updateArticle" /\ r.id = req[t].id /\ r.title = req[t].title
        /\ r.was # None => r.was = slug[r.id]
    <3> DEFINE v == IF req[t].title = title[req[t].id] THEN "save" ELSE "slug"
               w == IF req[t].title = title[req[t].id] THEN None ELSE slug[req[t].id]
               s == req[t].id \in public
    <3>1. /\ v \in {"find", "slug", "save"} /\ w \in Slugs \cup {None} /\ s \in BOOLEAN
          /\ w # None => w = slug[req[t].id]
      BY <2>2
    <3> HIDE DEF v, w, s
    <3>2. req[t] \in PublicRequest /\ req[t].op = "updateArticle"
      BY <2>1
    <3> DEFINE k == [req[t] EXCEPT !.at = v, !.was = w, !.shown = s]
    <3>3. /\ k \in PublicRequest /\ "op" \in DOMAIN k /\ k.op = req[t].op
          /\ k.id = req[t].id /\ k.title = req[t].title /\ k.was = w
      BY <3>1, <3>2 DEF PublicRequest
    <3>4. k.was # None => k.was = slug[k.id]
      BY <3>1, <3>3
    <3>5. QED
      BY <3>2, <3>3, <3>4 DEF v, w, s
  <2>4. HandlersOK' /\ Moves(t, r)
    BY <2>1, <2>3, ContinueMoves
  <2>5. /\ overlapped \subseteq overlapped'
        /\ "title" \notin overlapped' => \A u \in Requests \ {t} : ~Retitling(req[u], req[t].id)
    BY <2>1 DEF Overlap
  <2>6. QED
    BY <1>1, <2>1, <2>3, <2>4, <2>5 DEF Moves
<1>6. CASE ArticleSlug(t) /\ ~Finish(t)
  <2>1. /\ req[t] \in PublicRequest /\ UNCHANGED <<newsVars, overlapped>>
        /\ req[t].op \in {"createArticle", "updateArticle"} /\ req[t].at = "slug"
        /\ \/ \E n \in Nat : Continue(t, [req[t] EXCEPT !.n = n])
           \/ Continue(t, [req[t] EXCEPT !.at = "save"])
    BY <1>1, <1>6 DEF ArticleSlug, PublicRequest
  <2>2. PICK r \in PublicRequest :
           /\ Continue(t, r) /\ r.op = req[t].op /\ r.title = req[t].title /\ r.id = req[t].id
           /\ r.was = req[t].was
    <3>1. ASSUME NEW n \in Nat, Continue(t, [req[t] EXCEPT !.n = n])
          PROVE  \E r \in PublicRequest :
                    /\ Continue(t, r) /\ r.op = req[t].op /\ r.title = req[t].title
                    /\ r.id = req[t].id /\ r.was = req[t].was
      <4> DEFINE r == [req[t] EXCEPT !.n = n]
      <4>1. /\ r \in PublicRequest /\ r.op = req[t].op /\ r.title = req[t].title
            /\ r.id = req[t].id /\ r.was = req[t].was
        BY <2>1 DEF PublicRequest
      <4>2. QED
        BY <3>1, <4>1
    <3>2. ASSUME Continue(t, [req[t] EXCEPT !.at = "save"])
          PROVE  \E r \in PublicRequest :
                    /\ Continue(t, r) /\ r.op = req[t].op /\ r.title = req[t].title
                    /\ r.id = req[t].id /\ r.was = req[t].was
      <4> DEFINE r == [req[t] EXCEPT !.at = "save"]
      <4>1. /\ r \in PublicRequest /\ r.op = req[t].op /\ r.title = req[t].title
            /\ r.id = req[t].id /\ r.was = req[t].was
        BY <2>1 DEF PublicRequest
      <4>2. QED
        BY <3>2, <4>1
    <3>3. QED
      BY <2>1, <3>1, <3>2
  <2>3. HandlersOK' /\ Moves(t, r)
    BY <2>2, ContinueMoves DEF PublicRequest
  <2>4. QED
    BY <1>1, <2>1, <2>2, <2>3 DEF Moves
<1>7. CASE ToggleFindPublic(t) /\ ~Finish(t)
  <2> DEFINE r == [req[t] EXCEPT !.at = "save", !.shown = req[t].id \in public]
  <2>1. /\ req[t] \in PublicRequest /\ req[t].op = "togglePublic"
        /\ Continue(t, r) /\ UNCHANGED <<newsVars, overlapped>>
    BY <1>1, <1>7 DEF ToggleFindPublic
  <2>2. r \in PublicRequest /\ "op" \in DOMAIN r /\ r.op = "togglePublic"
    <3> DEFINE s == req[t].id \in public
    <3>1. s \in BOOLEAN
      OBVIOUS
    <3> HIDE DEF s
    <3>2. LET k == [req[t] EXCEPT !.at = "save", !.shown = s] IN
          k \in PublicRequest /\ "op" \in DOMAIN k /\ k.op = "togglePublic"
      BY <2>1, <3>1, ReadOfPublic
    <3>3. QED
      BY <3>2 DEF s
  <2>3. HandlersOK' /\ Moves(t, r)
    BY <2>1, <2>2, ContinueMoves
  <2>4. QED
    BY <2>1, <2>2, <2>3 DEF Moves
<1>8. CASE (SubscribeFind(t) \/ LeaveFind(t)) /\ ~Finish(t)
  <2> DEFINE r == [req[t] EXCEPT !.at = "save"]
  <2>1. /\ req[t] \in MailingRequest /\ Continue(t, r) /\ UNCHANGED newsVars
        /\ req[t].op \in {"subscribe", "requestUnsubscribe"}
        /\ overlapped \subseteq overlapped'
        /\ req[t].op = "requestUnsubscribe" =>
              /\ \A d \in Departing : ~(Pending(d) /\ leaving[d].reader = req[t].reader)
              /\ "leave" \notin overlapped' =>
                    \A u \in Requests \ {t} : ~LeaveCreating(req[u], req[t].reader)
    BY <1>1, <1>8 DEF SubscribeFind, LeaveFind, Overlap
  <2>2. r \in MailingRequest /\ "op" \in DOMAIN r /\ r.op = req[t].op /\ r.reader = req[t].reader
    BY <2>1 DEF MailingRequest
  <2>3. HandlersOK' /\ Moves(t, r)
    BY <2>1, <2>2, ContinueMoves
  <2>4. QED
    BY <2>1, <2>2, <2>3 DEF Moves
<1>9. QED
  BY <1>2, <1>3, <1>4, <1>5, <1>6, <1>7, <1>8 DEF NewsReads

LEMMA NewsReadsStep ==
  ASSUME HandlersOK, NewsInv, NEW t \in Requests, NewsReads(t)
  PROVE  NewsInv'
<1>1. /\ UNCHANGED <<title, slug, listings, public, removed, subscriber, leaving>>
      /\ overlapped \subseteq overlapped' /\ Moves(t, req'[t])
      /\ NewsTyping(req'[t]) /\ EditsStored(req'[t]) /\ NewsFound(t)
  BY NewsReadsOne DEF newsVars
<1>2. UNCHANGED <<Written, Slugs>> /\ \A d : Pending(d)' <=> Pending(d)
  BY <1>1 DEF Written, Pending, Slugs
<1>3. NewsTypeOK' /\ SlugFollowsTitle' /\ OnePendingRequest'
  BY <1>1, <1>2 DEF NewsInv, NewsTypeOK, SlugFollowsTitle, OnePendingRequest
<1>4. NewsRequests'
  BY <1>1, <1>2 DEF NewsInv, NewsRequests, NewsTyping, EditsStored, Moves
<1>5. TitleInv'
  BY <1>1, <1>2 DEF NewsInv, NewsRequests, NewsTyping, TitleInv, RetitlingRead, Retitling, NewsFound,
       Moves
<1>6. LeaveInv'
  BY <1>1, <1>2 DEF NewsInv, NewsTypeOK, LeaveInv, NewsFound, Moves, Pending
<1>7. QED
  BY <1>3, <1>4, <1>5, <1>6 DEF NewsInv

(* A request that is answered leaves nothing to be proved of it. *)
LEMMA NewsFinish ==
  ASSUME HandlersOK, NewsInv, NEW t \in Requests, Finish(t),
         removed' = removed, Written \subseteq Written'
  PROVE  NewsRequests'
<1>1. Moves(t, Idle) /\ req'[t] = Idle
  BY FinishMoves DEF Moves
<1>2. \A u \in Requests : NewsTyping(req[u])' /\ EditsStored(req[u])'
  BY <1>1, IdleHasNoOperation DEF NewsInv, NewsRequests, NewsTyping, EditsStored, Moves
<1>3. QED
  BY <1>2 DEF NewsRequests

LEMMA ArticleCreateStep ==
  ASSUME HandlersOK, NewsInv, NEW t \in Requests, ArticleCreate(t)
  PROVE  NewsInv'
<1> DEFINE r == req[t]
           k == <<Slug[r.title], r.n>>
<1>1. /\ r \in PublicRequest /\ r.title \in Titles /\ Finish(t)
      /\ UNCHANGED <<listings, removed, subscriber, leaving, overlapped>>
  BY DEF ArticleCreate, At, NewsInv, NewsRequests, NewsTyping, mailing
<1>2. HandlersOK' /\ Moves(t, Idle) /\ req'[t] = Idle
  BY <1>1, FinishMoves DEF Moves
<1>3. LeaveInv' /\ OnePendingRequest'
  BY <1>1, <1>2, IdleHasNoOperation
     DEF NewsInv, LeaveInv, OnePendingRequest, LeaveCreating, Moves, Pending
<1>4. CASE UNCHANGED <<title, slug, public>>
  <2>1. UNCHANGED Written
    BY <1>4 DEF Written
  <2>2. NewsTypeOK' /\ SlugFollowsTitle'
    BY <1>1, <1>4, <2>1 DEF NewsInv, NewsTypeOK, SlugFollowsTitle
  <2>3. NewsRequests'
    BY <1>1, <2>1, NewsFinish
  <2>4. TitleInv'
    BY <1>1, <1>2, <1>4, <2>1, IdleHasNoOperation
       DEF NewsInv, TitleInv, Retitling, RetitlingRead, Moves
  <2>5. QED
    BY <1>3, <2>2, <2>3, <2>4 DEF NewsInv
<1>5. CASE ~UNCHANGED <<title, slug, public>>
  <2>1. PICK a \in Fresh((Articles \ Written) \ removed), show \in BOOLEAN :
           /\ title' = [title EXCEPT ![a] = r.title]
           /\ slug' = [slug EXCEPT ![a] = k]
           /\ public' = IF show THEN public \cup {a} ELSE public
    BY <1>5 DEF ArticleCreate
  <2>2. a \in Articles /\ a \notin Written /\ a \notin removed
    BY FreshIsFree
  <2>3. k \in Slugs /\ k[1] = Slug[r.title] /\ r.title # None
    BY <1>1, NewsroomAssumptions DEF Slugs, PublicRequest
  <2> HIDE DEF k
  <2>4. /\ title' \in [Articles -> Titles \cup {None}] /\ slug' \in [Articles -> Slugs \cup {None}]
        /\ title'[a] = r.title /\ slug'[a] = k
        /\ \A b \in Articles \ {a} : title'[b] = title[b] /\ slug'[b] = slug[b]
    BY <1>1, <2>1, <2>2, <2>3 DEF NewsInv, NewsTypeOK
  <2>5. Written' = Written \cup {a}
    BY <2>2, <2>3, <2>4 DEF Written
  <2>6. NewsTypeOK'
    BY <1>1, <2>1, <2>2, <2>4 DEF NewsInv, NewsTypeOK
  <2>7. SlugFollowsTitle'
    BY <1>1, <2>3, <2>4, <2>5 DEF NewsInv, SlugFollowsTitle, Written
  <2>8. NewsRequests'
    BY <1>1, <2>5, NewsFinish
  <2>9. TitleInv'
    <3>1. \A u \in Requests : RetitlingRead(req[u]) => RetitlingRead(req[u])'
      <4> SUFFICES ASSUME NEW u \in Requests, RetitlingRead(req[u]), u # t,
                          req[u].op = "updateArticle"
                   PROVE  RetitlingRead(req[u])'
        BY <1>2, IdleHasNoOperation DEF Moves, RetitlingRead
      <4>1. req[u].id \in Articles /\ req[u].id # a
        BY <2>2 DEF NewsInv, NewsRequests, EditsStored, NewsTyping
      <4>2. QED
        BY <1>2, <2>4, <2>5, <4>1 DEF RetitlingRead, Moves
    <3>2. QED
      BY <1>1, <1>2, <3>1, IdleHasNoOperation DEF NewsInv, TitleInv, Retitling, Moves
  <2>10. QED
    BY <1>3, <2>6, <2>7, <2>8, <2>9 DEF NewsInv
<1>6. QED
  BY <1>4, <1>5

(* An edit writes the title with the slug made of it, or keeps the slug it has read,
   which is made of it. *)
LEMMA ArticleSaveStep ==
  ASSUME HandlersOK, NewsInv, NEW t \in Requests, ArticleSave(t)
  PROVE  NewsInv'
<1> DEFINE r == req[t]
           k == <<Slug[r.title], r.n>>
           retitled == r.was # None
           moved == retitled /\ k # r.was
<1>1. /\ r \in PublicRequest /\ r.title \in Titles /\ r.id \in Articles /\ Finish(t)
      /\ r.op = "updateArticle" /\ r.at = "save"
      /\ UNCHANGED <<listings, removed, subscriber, leaving, overlapped>>
  BY DEF ArticleSave, At, NewsInv, NewsRequests, NewsTyping, mailing
<1>2. HandlersOK' /\ Moves(t, Idle) /\ req'[t] = Idle
  BY <1>1, FinishMoves DEF Moves
<1>3. LeaveInv' /\ OnePendingRequest'
  BY <1>1, <1>2, IdleHasNoOperation
     DEF NewsInv, LeaveInv, OnePendingRequest, LeaveCreating, Moves, Pending
<1>4. k \in Slugs /\ k[1] = Slug[r.title] /\ r.title # None
  BY <1>1, NewsroomAssumptions DEF Slugs, PublicRequest
<1>5. /\ public' \subseteq Articles \cup listings
      /\ \/ UNCHANGED <<title, slug>>
         \/ /\ r.id \in Written /\ retitled
            /\ title' = [title EXCEPT ![r.id] = r.title]
            /\ slug' = IF moved THEN [slug EXCEPT ![r.id] = k] ELSE slug
  BY <1>1 DEF ArticleSave, NewsInv, NewsTypeOK, Flipped, Stocked, Written
<1> HIDE DEF k
<1>6. /\ title' \in [Articles -> Titles \cup {None}] /\ slug' \in [Articles -> Slugs \cup {None}]
      /\ \A b \in Articles \ {r.id} : title'[b] = title[b] /\ slug'[b] = slug[b]
      /\ Written' = Written
  BY <1>1, <1>4, <1>5 DEF NewsInv, NewsTypeOK, Written
<1>7. NewsTypeOK'
  BY <1>1, <1>5, <1>6 DEF NewsInv, NewsTypeOK
<1>8. NewsRequests'
  BY <1>1, <1>6, NewsFinish
<1>9. "title" \notin overlapped => /\ retitled /\ r.id \in Written => r.was = slug[r.id]
                                   /\ \A u \in Requests \ {t} : ~Retitling(req[u], r.id)
  BY <1>1 DEF NewsInv, TitleInv, RetitlingRead, Retitling
<1>10. SlugFollowsTitle'
  <2> SUFFICES ASSUME "title" \notin overlapped, NEW b \in Written
               PROVE  slug'[b][1] = Slug[title'[b]]
    BY <1>1, <1>6 DEF SlugFollowsTitle
  <2>1. b \in Articles /\ slug[b][1] = Slug[title[b]]
    BY <1>1 DEF Written, NewsInv, SlugFollowsTitle
  <2>2. CASE b # r.id \/ UNCHANGED <<title, slug>>
    BY <1>6, <2>1, <2>2
  <2>3. CASE b = r.id /\ ~UNCHANGED <<title, slug>>
    <3>1. retitled /\ r.was = slug[b] /\ title'[b] = r.title
      BY <1>1, <1>5, <1>9, <2>1, <2>3 DEF NewsInv, NewsTypeOK
    <3>2. slug'[b] = k
      BY <1>1, <1>5, <2>1, <2>3, <3>1 DEF NewsInv, NewsTypeOK
    <3>3. QED
      BY <1>4, <3>1, <3>2
  <2>4. QED
    BY <2>2, <2>3
<1>11. TitleInv'
  <2>1. ASSUME "title" \notin overlapped, NEW u \in Requests, RetitlingRead(req[u])
        PROVE  RetitlingRead(req[u])'
    BY <1>1, <1>2, <1>6, <1>9, <2>1, IdleHasNoOperation
       DEF RetitlingRead, Retitling, Moves, Written
  <2>2. QED
    BY <1>1, <1>2, <2>1, IdleHasNoOperation DEF NewsInv, TitleInv, Retitling, Moves
<1>12. QED
  BY <1>3, <1>7, <1>8, <1>10, <1>11 DEF NewsInv

LEMMA ToggleSaveStep ==
  ASSUME HandlersOK, NewsInv, NEW t \in Requests, ToggleSavePublic(t)
  PROVE  NewsInv'
<1>1. /\ req[t] \in PublicRequest /\ Finish(t)
      /\ UNCHANGED <<title, slug, listings, removed, subscriber, leaving, overlapped>>
      /\ public' = Flipped(req[t])
  BY DEF ToggleSavePublic, At, NewsInv, NewsRequests, NewsTyping, mailing
<1>2. Moves(t, Idle) /\ req'[t] = Idle /\ UNCHANGED Written
  BY <1>1, FinishMoves DEF Moves, Written
<1>3. NewsTypeOK' /\ SlugFollowsTitle'
  BY <1>1, <1>2 DEF NewsInv, NewsTypeOK, SlugFollowsTitle, Flipped, Stocked, Written
<1>4. LeaveInv' /\ OnePendingRequest'
  BY <1>1, <1>2, IdleHasNoOperation
     DEF NewsInv, LeaveInv, OnePendingRequest, LeaveCreating, Moves, Pending
<1>5. NewsRequests'
  BY <1>1, <1>2, NewsFinish
<1>6. TitleInv'
  BY <1>1, <1>2, IdleHasNoOperation
     DEF NewsInv, TitleInv, Retitling, RetitlingRead, Moves
<1>7. QED
  BY <1>3, <1>4, <1>5, <1>6 DEF NewsInv

LEMMA SubscribeCreateStep ==
  ASSUME HandlersOK, NewsInv, NEW t \in Requests, SubscribeCreate(t)
  PROVE  NewsInv'
<1>1. /\ req[t] \in MailingRequest /\ Finish(t)
      /\ UNCHANGED <<title, slug, listings, public, removed, leaving, overlapped>>
  BY DEF SubscribeCreate, At, NewsInv, NewsRequests, NewsTyping
<1>2. subscriber' \in [Subscriptions -> Readers \cup {None}]
  <2>1. CASE UNCHANGED subscriber
    BY <2>1 DEF NewsInv, NewsTypeOK
  <2>2. CASE ~UNCHANGED subscriber
    <3>1. PICK s \in Fresh({s \in Subscriptions \ removed : subscriber[s] = None}) :
             subscriber' = [subscriber EXCEPT ![s] = req[t].reader]
      BY <2>2 DEF SubscribeCreate
    <3>2. req[t].reader \in Readers
      BY <1>1 DEF MailingRequest
    <3>3. QED
      BY <3>1, <3>2 DEF NewsInv, NewsTypeOK
  <2>3. QED
    BY <2>1, <2>2
<1>3. Moves(t, Idle) /\ req'[t] = Idle /\ UNCHANGED Written
  BY <1>1, FinishMoves DEF Moves, Written
<1>4. NewsTypeOK' /\ SlugFollowsTitle'
  BY <1>1, <1>2, <1>3 DEF NewsInv, NewsTypeOK, SlugFollowsTitle
<1>5. LeaveInv' /\ OnePendingRequest'
  BY <1>1, <1>3, IdleHasNoOperation
     DEF NewsInv, LeaveInv, OnePendingRequest, LeaveCreating, Moves, Pending
<1>6. NewsRequests'
  BY <1>1, <1>3, NewsFinish
<1>7. TitleInv'
  BY <1>1, <1>3, IdleHasNoOperation
     DEF NewsInv, TitleInv, Retitling, RetitlingRead, Moves
<1>8. QED
  BY <1>4, <1>5, <1>6, <1>7 DEF NewsInv

(* The request that is stored is the reader's only one, but for those opened again,
   and no other is about to be. *)
LEMMA LeaveCreateStep ==
  ASSUME HandlersOK, NewsInv, NEW t \in Requests, LeaveCreate(t)
  PROVE  NewsInv'
<1> DEFINE e == req[t].reader
           x == [reader |-> e, status |-> "pending", reopened |-> FALSE]
<1>1. /\ req[t] \in MailingRequest /\ Finish(t) /\ LeaveCreating(req[t], e) /\ e \in Readers
      /\ UNCHANGED <<title, slug, listings, public, removed, subscriber, overlapped>>
  BY DEF LeaveCreate, At, NewsInv, NewsRequests, NewsTyping, MailingRequest, LeaveCreating
<1>2. PICK d \in Fresh({d \in Departing \ removed : leaving[d] = None}) :
         leaving' = [leaving EXCEPT ![d] = x]
  BY DEF LeaveCreate
<1>3. d \in Departing /\ leaving[d] = None
  BY FreshIsFree
<1>4. /\ x \in [reader : Readers, status : {"pending", "processed"}, reopened : BOOLEAN]
      /\ x.reader = e
  BY <1>1
<1> HIDE DEF x
<1>5. /\ leaving' \in [Departing -> {None} \cup
            [reader : Readers, status : {"pending", "processed"}, reopened : BOOLEAN]]
      /\ leaving'[d] = x /\ \A c \in Departing \ {d} : leaving'[c] = leaving[c]
  BY <1>2, <1>3, <1>4 DEF NewsInv, NewsTypeOK
<1>6. Moves(t, Idle) /\ req'[t] = Idle /\ UNCHANGED Written
  BY <1>1, FinishMoves DEF Moves, Written
<1>7. NewsTypeOK' /\ SlugFollowsTitle'
  BY <1>1, <1>5, <1>6 DEF NewsInv, NewsTypeOK, SlugFollowsTitle
<1>8. "leave" \notin overlapped =>
         /\ \A u \in Requests \ {t} : ~LeaveCreating(req[u], e)
         /\ \A c \in Departing : Pending(c) /\ leaving[c].reader = e => leaving[c].reopened
  BY <1>1 DEF NewsInv, LeaveInv
<1>9. ~Pending(d) /\ \A c \in Departing \ {d} : Pending(c)' <=> Pending(c)
  BY <1>3, <1>5 DEF Pending
<1>10. LeaveInv'
  BY <1>1, <1>4, <1>5, <1>6, <1>8, <1>9, IdleHasNoOperation
     DEF NewsInv, LeaveInv, LeaveCreating, Moves
<1>11. OnePendingRequest'
  BY <1>1, <1>4, <1>5, <1>8, <1>9 DEF NewsInv, OnePendingRequest
<1>12. NewsRequests'
  BY <1>1, <1>6, NewsFinish
<1>13. TitleInv'
  BY <1>1, <1>6, IdleHasNoOperation
     DEF NewsInv, TitleInv, Retitling, RetitlingRead, Moves
<1>14. QED
  BY <1>7, <1>10, <1>11, <1>12, <1>13 DEF NewsInv

-----------------------------------------------------------------------------
(* Steps of no request in flight. *)
LEMMA ListingStep ==
  ASSUME HandlersOK, NewsInv, ListingSave
  PROVE  NewsInv'
<1>1. /\ UNCHANGED <<req, overlapped, title, slug, removed, subscriber, leaving, Written>>
  BY DEF ListingSave, handlers, mailing, Written
<1>2. listings' \subseteq Vacancies \cup Cars /\ public' \subseteq Articles \cup listings'
  BY DEF ListingSave, NewsInv, NewsTypeOK
<1>3. NewsTypeOK' /\ SlugFollowsTitle' /\ OnePendingRequest'
  BY <1>1, <1>2 DEF NewsInv, NewsTypeOK, SlugFollowsTitle, OnePendingRequest, Pending
<1>4. NewsRequests' /\ TitleInv' /\ LeaveInv'
  BY <1>1 DEF NewsInv, NewsRequests, NewsTyping, EditsStored, TitleInv, RetitlingRead, Retitling,
     LeaveInv, LeaveCreating, Pending
<1>5. QED
  BY <1>3, <1>4 DEF NewsInv

LEMMA PublicDeleteStep ==
  ASSUME HandlersOK, NewsInv, NEW a \in Articles \cup Vacancies \cup Cars, PublicDelete(a)
  PROVE  NewsInv'
<1>1. /\ UNCHANGED <<req, overlapped, subscriber, leaving>>
      /\ title' = [b \in Articles |-> IF b = a THEN None ELSE title[b]]
      /\ slug' = [b \in Articles |-> IF b = a THEN None ELSE slug[b]]
      /\ listings' = listings \ {a} /\ public' = public \ {a} /\ removed' = removed \cup {a}
  BY DEF PublicDelete, handlers, mailing
<1>2. /\ Written' = Written \ {a}
      /\ \A b \in Written' : title'[b] = title[b] /\ slug'[b] = slug[b]
  BY <1>1 DEF Written
<1>3. NewsTypeOK' /\ SlugFollowsTitle' /\ OnePendingRequest'
  BY <1>1, <1>2 DEF NewsInv, NewsTypeOK, SlugFollowsTitle, OnePendingRequest, Pending
<1>4. NewsRequests' /\ LeaveInv'
  BY <1>1, <1>2 DEF NewsInv, NewsRequests, NewsTyping, EditsStored, LeaveInv, LeaveCreating, Pending
<1>5. TitleInv'
  BY <1>1, <1>2 DEF NewsInv, TitleInv, RetitlingRead, Retitling
<1>6. QED
  BY <1>3, <1>4, <1>5 DEF NewsInv

(* What an administrator opens again is marked as such. *)
LEMMA LeaveUpdateStep ==
  ASSUME HandlersOK, NewsInv, NEW d \in Departing, LeaveUpdate(d)
  PROVE  NewsInv'
<1>1. PICK s \in {"pending", "processed"} :
         leaving' = [leaving EXCEPT ![d].status = s,
                                    ![d].reopened = @ \/ (~Pending(d) /\ s = "pending")]
  BY DEF LeaveUpdate
<1>2. /\ UNCHANGED <<req, overlapped, title, slug, listings, public, removed, subscriber, Written>>
      /\ leaving[d] # None
  BY DEF LeaveUpdate, handlers, Written
<1>3. leaving[d] \in [reader : Readers, status : {"pending", "processed"}, reopened : BOOLEAN]
  BY <1>2 DEF NewsInv, NewsTypeOK
<1> DEFINE again == leaving[d].reopened \/ (~Pending(d) /\ s = "pending")
<1>4. again \in BOOLEAN
  OBVIOUS
<1>5. leaving' = [leaving EXCEPT ![d] = [leaving[d] EXCEPT !.status = s, !.reopened = again]]
  BY <1>1, <1>2 DEF NewsInv, NewsTypeOK
<1>6. /\ leaving[d].reopened => again
      /\ s = "pending" /\ ~Pending(d) => again
  OBVIOUS
<1> HIDE DEF again
<1> DEFINE x == [leaving[d] EXCEPT !.status = s, !.reopened = again]
<1>7. /\ x \in [reader : Readers, status : {"pending", "processed"}, reopened : BOOLEAN]
      /\ x.reader = leaving[d].reader /\ x.status = s /\ x.reopened = again
  BY <1>3, <1>4
<1> HIDE DEF x
<1>8. /\ leaving' \in [Departing -> {None} \cup
            [reader : Readers, status : {"pending", "processed"}, reopened : BOOLEAN]]
      /\ leaving'[d] = x /\ \A c \in Departing \ {d} : leaving'[c] = leaving[c]
  BY <1>5, <1>7 DEF NewsInv, NewsTypeOK, x
<1>9. \A c \in Departing : /\ leaving'[c] # None => leaving'[c].reader = leaving[c].reader
                           /\ Pending(c)' => Pending(c) \/ leaving'[c].reopened
                           /\ leaving[c] # None /\ leaving[c].reopened => leaving'[c].reopened
  BY <1>6, <1>7, <1>8 DEF Pending
<1>10. NewsTypeOK' /\ SlugFollowsTitle'
  BY <1>2, <1>8 DEF NewsInv, NewsTypeOK, SlugFollowsTitle
<1>11. NewsRequests' /\ TitleInv'
  BY <1>2 DEF NewsInv, NewsRequests, NewsTyping, EditsStored, TitleInv, RetitlingRead, Retitling
<1>12. LeaveInv' /\ OnePendingRequest'
  BY <1>2, <1>9 DEF NewsInv, LeaveInv, OnePendingRequest, LeaveCreating, Pending
<1>13. QED
  BY <1>10, <1>11, <1>12 DEF NewsInv

LEMMA MailingDeleteStep ==
  ASSUME HandlersOK, NewsInv, NEW x \in Subscriptions \cup Departing, MailingDelete(x)
  PROVE  NewsInv'
<1>1. /\ UNCHANGED <<req, overlapped, title, slug, listings, public, Written>>
      /\ removed' = removed \cup {x}
  BY DEF MailingDelete, handlers, Written
<1>2. /\ subscriber' \in [Subscriptions -> Readers \cup {None}]
      /\ leaving' \in [Departing -> {None} \cup
            [reader : Readers, status : {"pending", "processed"}, reopened : BOOLEAN]]
      /\ \A d \in Departing : Pending(d)' => leaving'[d] = leaving[d] /\ Pending(d)
  BY DEF MailingDelete, NewsInv, NewsTypeOK, Pending
<1>3. NewsTypeOK' /\ SlugFollowsTitle'
  BY <1>1, <1>2 DEF NewsInv, NewsTypeOK, SlugFollowsTitle
<1>4. NewsRequests' /\ TitleInv'
  BY <1>1 DEF NewsInv, NewsRequests, NewsTyping, EditsStored, TitleInv, RetitlingRead, Retitling
<1>5. LeaveInv' /\ OnePendingRequest'
  BY <1>1, <1>2 DEF NewsInv, LeaveInv, OnePendingRequest, LeaveCreating
<1>6. QED
  BY <1>3, <1>4, <1>5 DEF NewsInv

LEMMA NewsAsideStep ==
  ASSUME NewsInv, NewsAside
  PROVE  NewsInv'
<1>1. UNCHANGED <<title, slug, listings, public, removed, subscriber, leaving, Written>>
      /\ \A d : Pending(d)' <=> Pending(d)
  BY DEF NewsAside, newsVars, Written, Pending
<1>2. NewsTypeOK' /\ SlugFollowsTitle' /\ OnePendingRequest'
  BY <1>1 DEF NewsAside, Foreign, NewsInv, NewsTypeOK, SlugFollowsTitle, OnePendingRequest
<1>3. \A t \in Requests : /\ NewsTyping(req[t])' /\ EditsStored(req[t])'
                          /\ RetitlingRead(req[t]) => RetitlingRead(req[t])'
  BY <1>1 DEF NewsAside, Foreign, NewsOperations, NewsInv, NewsRequests, NewsTyping, EditsStored,
     RetitlingRead
<1>4. NewsRequests' /\ TitleInv' /\ LeaveInv'
  BY <1>1, <1>3 DEF NewsAside, Foreign, NewsOperations, NewsInv, NewsRequests, TitleInv, Retitling,
     LeaveInv, LeaveCreating
<1>5. QED
  BY <1>2, <1>4 DEF NewsInv

LEMMA NewsInvStep ==
  ASSUME HandlersOK, NewsInv, NewsNext \/ NewsAside
  PROVE  NewsInv'
<1>1. ASSUME NEW t \in Requests, NewsStep(t) PROVE NewsInv'
  BY <1>1, NewsReadsStep, ArticleCreateStep, ArticleSaveStep, ToggleSaveStep, SubscribeCreateStep,
     LeaveCreateStep DEF NewsStep, NewsReads
<1>2. QED
  BY <1>1, ListingStep, PublicDeleteStep, LeaveUpdateStep, MailingDeleteStep, NewsAsideStep
     DEF NewsNext

LEMMA ArticleFindStepOf ==
  ASSUME HandlersOK, NEW t \in Requests, ArticleFind(t)
  PROVE  HandlersOK' /\ StepOf(NewsOperations)
<1> DEFINE r == [req[t] EXCEPT
        !.at = IF req[t].title = title[req[t].id] THEN "save" ELSE "slug",
        !.was = IF req[t].title = title[req[t].id] THEN None ELSE slug[req[t].id],
        !.shown = req[t].id \in public]
<1>1. "op" \in DOMAIN r /\ r.op = req[t].op
  BY DEF HandlersOK
<1>2. /\ Continue(t, r) \/ Continue(t, Idle)
      /\ req[t].op \in NewsOperations /\ overlapped \subseteq overlapped'
  BY DEF ArticleFind, At, Finish, Overlap, NewsOperations
<1> HIDE DEF r
<1>3. CASE Continue(t, r)
  BY <1>1, <1>2, <1>3, ContinueIsStepOf
<1>4. CASE Continue(t, Idle)
  BY <1>2, <1>4, ContinueIsStepOf, IdleHasNoOperation
<1>5. QED
  BY <1>2, <1>3, <1>4

LEMMA ToggleFindStepOf ==
  ASSUME HandlersOK, NEW t \in Requests, ToggleFindPublic(t)
  PROVE  HandlersOK' /\ StepOf(NewsOperations)
<1> DEFINE r == [req[t] EXCEPT !.at = "save", !.shown = req[t].id \in public]
<1>1. "op" \in DOMAIN r /\ r.op = req[t].op
  BY DEF HandlersOK
<1>2. /\ Continue(t, r) \/ Continue(t, Idle)
      /\ req[t].op \in NewsOperations /\ overlapped \subseteq overlapped'
  BY DEF ToggleFindPublic, At, Finish, Overlap, NewsOperations
<1> HIDE DEF r
<1>3. CASE Continue(t, r)
  BY <1>1, <1>2, <1>3, ContinueIsStepOf
<1>4. CASE Continue(t, Idle)
  BY <1>2, <1>4, ContinueIsStepOf, IdleHasNoOperation
<1>5. QED
  BY <1>2, <1>3, <1>4

(* What the rest of the process sees of a step of the newsroom. *)
LEMMA NewsStepOf ==
  ASSUME HandlersOK, NewsNext
  PROVE  HandlersOK' /\ StepOf(NewsOperations)
<1> USE DEF HandlersOK, StepOf, NewsOperations, Start, Continue, Finish, Idle, At, Overlap
<1>1. ASSUME NEW t \in Requests, NewsAsk(t) \/ MailingAsk(t)
      PROVE  HandlersOK' /\ StepOf(NewsOperations)
  BY <1>1 DEF NewsAsk, MailingAsk, PublicAsked
<1>2. ASSUME NEW t \in Requests, ArticleFind(t) \/ ArticleSlug(t) \/ ArticleCreate(t) \/ ArticleSave(t)
      PROVE  HandlersOK' /\ StepOf(NewsOperations)
  <2>1. CASE ArticleFind(t)
    BY <2>1, ArticleFindStepOf
  <2>2. CASE ArticleSlug(t)
    BY <1>2, <2>2 DEF ArticleSlug
  <2>3. CASE ArticleCreate(t)
    BY <1>2, <2>3 DEF ArticleCreate
  <2>4. CASE ArticleSave(t)
    BY <1>2, <2>4 DEF ArticleSave
  <2>5. QED
    BY <1>2, <2>1, <2>2, <2>3, <2>4
<1>3. ASSUME NEW t \in Requests, ToggleFindPublic(t) \/ ToggleSavePublic(t)
      PROVE  HandlersOK' /\ StepOf(NewsOperations)
  <2>1. CASE ToggleFindPublic(t)
    BY <2>1, ToggleFindStepOf
  <2>2. CASE ToggleSavePublic(t)
    BY <2>2 DEF ToggleSavePublic
  <2>3. QED
    BY <1>3, <2>1, <2>2
<1>4. ASSUME NEW t \in Requests,
             SubscribeFind(t) \/ SubscribeCreate(t) \/ LeaveFind(t) \/ LeaveCreate(t)
      PROVE  HandlersOK' /\ StepOf(NewsOperations)
  <2>1. CASE SubscribeFind(t)
    BY <2>1 DEF SubscribeFind
  <2>2. CASE LeaveFind(t)
    <3>1. /\ Continue(t, [req[t] EXCEPT !.at = "save"]) \/ Finish(t)
          /\ req[t].op \in NewsOperations /\ overlapped \subseteq overlapped'
      BY <2>2 DEF LeaveFind
    <3>2. QED
      BY <3>1, AtIsStepOf
  <2>3. CASE SubscribeCreate(t) \/ LeaveCreate(t)
    BY <2>3 DEF SubscribeCreate, LeaveCreate
  <2>4. QED
    BY <1>4, <2>1, <2>2, <2>3
<1>5. CASE UNCHANGED handlers
  BY <1>5 DEF handlers
<1>6. QED
  BY <1>1, <1>2, <1>3, <1>4, <1>5
     DEF NewsNext, NewsStep, ListingSave, PublicDelete, LeaveUpdate, MailingDelete

-----------------------------------------------------------------------------
(* The leads.  What a handler has left to do is the end of its plan. *)
AwaitedSteps == {"adminMail", "adminMailAnyway", "sms"}
StepsBefore == {"configured", "upload", "rider", "count", "lookup"}
StepsAfter == AwaitedSteps \cup {"adminNote", "smsNote", "userMail", "userMailFirst"}
LeadSteps == StepsBefore \cup {"save"} \cup StepsAfter

(* A plan stores the lead once, next to the check if there is one, and then tells
   of it; where a failed mail ends the notifications, none is awaited. *)
PlanShaped(p, s) ==
    /\ p \in Seq(LeadSteps) /\ s \in 1..Len(p) /\ p[s] = "save"
    /\ \A i \in 1..Len(p) : /\ i < s => p[i] \in StepsBefore
                            /\ i > s => p[i] \in StepsAfter
                            /\ p[i] = "lookup" => i = s - 1
    /\ \A i, j \in 1..Len(p) : p[i] = "userMailFirst" => p[j] \notin AwaitedSteps

SaveAt(f) == CHOOSE i \in 1..Len(Plan[f]) : Plan[f][i] = "save"

(* How many steps of its plan a request is past. *)
Done(r) == Len(Plan[r.op]) - Len(r.todo)

SubmitRequest ==
    [op : Forms, at : {"submit"}, todo : Seq(LeadSteps), enquiry : Enquiries \cup {None},
     id : Leads \cup {None}]

(* What a request has left to do is the end of its plan. *)
Remaining(r) ==
    /\ r \in SubmitRequest
    /\ Len(r.todo) \in 1..Len(Plan[r.op])
    /\ \A k \in 1..Len(r.todo) : r.todo[k] = Plan[r.op][Done(r) + k]
    /\ r.enquiry = None <=> ~Has(r.op, "lookup")

SubmitTyping(r) ==
    Submitting(r) => Remaining(r) /\ (r.id = None <=> Done(r) < SaveAt(r.op))

ReviewRequest ==
    [op : {"reviewTransfer"}, at : {"find", "save", "mail"}, id : Leads,
     status : LeadStatuses, was : LeadStatuses]

ReviewTyping(r) == r.op = "reviewTransfer" => r \in ReviewRequest

(* The admins know of a lead by a step of its plan, unless the step does not await
   their mail or nobody is there to write to. *)
Covered(l, step) ==
    step \in AwaitedSteps /\ (step = "adminMail" => adminEmail)
        => Channel(step) \in told[l] \cup reported[l]

LeadKnows(r) ==
    /\ Submitting(r) /\ r.id # None =>
          /\ lead[r.id] # None /\ lead[r.id].form = r.op
          /\ r.id \notin silenced => \A j \in 1..Done(r) : Covered(r.id, Plan[r.op][j])
    /\ r.op = "reviewTransfer" => lead[r.id] # None /\ lead[r.id].form = "AirportTransfer"

LeadRequests ==
    \A t \in Requests : SubmitTyping(req[t]) /\ ReviewTyping(req[t]) /\ LeadKnows(req[t])

(* A request about to store a lead that its form looks up. *)
SavingLike(r, f, k) == Submitting(r) /\ r.op = f /\ r.enquiry = k /\ Head(r.todo) = "save"

Alike(l, m) == lead[l].form = lead[m].form /\ lead[l].enquiry = lead[m].enquiry

LookupInv ==
    "lookup" \notin overlapped =>
        /\ \A t, u \in Requests, f \in Forms, k \in Enquiries :
              SavingLike(req[t], f, k) /\ SavingLike(req[u], f, k) => t = u
        /\ \A t \in Requests, l \in Kept :
              /\ lead[l].enquiry \in Enquiries
              /\ SavingLike(req[t], lead[l].form, lead[l].enquiry)
              => ~lead[l].recent \/ lead[l].edited
        /\ \A l, m \in Kept :
              /\ Alike(l, m) /\ lead[l].enquiry \in Enquiries
              /\ ~lead[l].edited /\ ~lead[m].edited /\ lead[l].recent /\ lead[m].recent
              => l = m

(* The driving school's indexes. *)
SchoolInv ==
    \A l, m \in Kept :
        Alike(l, m) /\ lead[l].form = "OdSchool" /\ lead[l].enquiry \in Enquiries => l = m

Reviewing(r, l) == r.op = "reviewTransfer" /\ r.at = "save" /\ r.id = l

(* Requests about to tell a customer of the approval they stored. *)
Congratulating(l) ==
    {t \in Requests : /\ req[t].op = "reviewTransfer" /\ req[t].at = "mail" /\ req[t].id = l
                      /\ req[t].status = "approved" /\ req[t].was # "approved"}

ReviewInv ==
    "review" \notin overlapped =>
        /\ \A t, u \in Requests, l \in Leads :
              Reviewing(req[t], l) /\ Reviewing(req[u], l) => t = u
        /\ \A t \in Requests, l \in Leads :
              Reviewing(req[t], l) => req[t].was = lead[l].status
        /\ \A l \in Leads : approvalMails[l] + Cardinality(Congratulating(l)) <= entered[l]

LeadInv ==
    /\ LeadTypeOK /\ LeadRequests /\ LeadIsKnown
    /\ LookupInv /\ SchoolInv /\ ReviewInv

(* A step of anything else leaves the leads, and the requests to store one. *)
LeadAside ==
    /\ Foreign(LeadOperations) /\ UNCHANGED leadVars
    /\ \A t \in Requests : Submitting(req[t]) => req'[t] = req[t]

(* What is known of every plan. *)
LEMMA PlanShape ==
  ASSUME NEW f \in Forms
  PROVE  PlanShaped(Plan[f], SaveAt(f))
<1>1. \E s : PlanShaped(Plan[f], s)
  <2> USE DEF PlanShaped, LeadSteps, StepsBefore, StepsAfter, AwaitedSteps
  <2>1. /\ PlanShaped(ContactUs, 1) /\ PlanShaped(CustomQuote, 1) /\ PlanShaped(FleetManagement, 1)
        /\ PlanShaped(LeaseOptions, 1) /\ PlanShaped(ScheduleConsultation, 1)
        /\ PlanShaped(VerificationServices, 1)
    BY DEF ContactUs, CustomQuote, FleetManagement, LeaseOptions, ScheduleConsultation,
       VerificationServices
  <2>2. /\ PlanShaped(CarRentals, 1) /\ PlanShaped(MoServices, 1)
        /\ PlanShaped(InterstateBooking, 1) /\ PlanShaped(BookingRequest, 2)
        /\ PlanShaped(AirportTransfer, 2)
    BY DEF CarRentals, MoServices, InterstateBooking, BookingRequest, AirportTransfer
  <2>3. /\ PlanShaped(OdSchool, 3) /\ PlanShaped(JobApplication, 3) /\ PlanShaped(OneWay, 2)
        /\ PlanShaped(ShuttleTrip, 2) /\ PlanShaped(GuestBooking, 1)
        /\ PlanShaped(PaystackBookings, 1)
    BY DEF OdSchool, JobApplication, OneWay, ShuttleTrip, GuestBooking, PaystackBookings
  <2> HIDE DEF PlanShaped
  <2>4. QED
    BY <2>1, <2>2, <2>3 DEF Forms, Plan
<1>2. PICK s : PlanShaped(Plan[f], s)
  BY <1>1
<1>3. /\ s \in 1..Len(Plan[f]) /\ Plan[f][s] = "save"
      /\ \A i \in 1..Len(Plan[f]) : Plan[f][i] = "save" => i = s
  BY <1>2 DEF PlanShaped, StepsBefore, StepsAfter, AwaitedSteps
<1>4. SaveAt(f) = s
  BY <1>3 DEF SaveAt
<1>5. QED
  BY <1>2, <1>4

LEMMA NextInPlan ==
  ASSUME NEW r, Remaining(r)
  PROVE  /\ r.op \in Forms /\ Len(Plan[r.op]) \in Nat /\ Done(r) \in 0..Len(Plan[r.op]) - 1
         /\ Head(r.todo) = Plan[r.op][Done(r) + 1]
         /\ Done(r) + 1 \in 1..Len(Plan[r.op])
<1>1. /\ r.op \in Forms /\ r.todo \in Seq(LeadSteps) /\ Len(r.todo) \in 1..Len(Plan[r.op])
      /\ Len(Plan[r.op]) \in Nat
  BY PlanShape DEF Remaining, SubmitRequest, PlanShaped
<1>2. Head(r.todo) = r.todo[1]
  BY <1>1
<1>3. Done(r) \in 0..Len(Plan[r.op]) - 1 /\ Done(r) + 1 \in 1..Len(Plan[r.op])
  <2> DEFINE n == Len(Plan[r.op])
             m == Len(r.todo)
  <2>1. n \in Nat /\ m \in 1..n /\ Done(r) = n - m
    BY <1>1 DEF Done
  <2> HIDE DEF n, m
  <2>2. Done(r) \in 0..n - 1 /\ Done(r) + 1 \in 1..n
    BY <2>1
  <2>3. QED
    BY <2>2 DEF n
<1>4. r.todo[1] = Plan[r.op][Done(r) + 1]
  BY <1>1 DEF Remaining
<1>5. QED
  BY <1>1, <1>2, <1>3, <1>4

(* A step of a submission brings it to the next one of its plan, or to its end. *)
LEMMA ProceedOne ==
  ASSUME HandlersOK, NEW t \in Requests, NEW r, Remaining(r), Proceed(t, r)
  PROVE  /\ HandlersOK' /\ Moves(t, req'[t])
         /\ \/ req'[t] = Idle /\ Done(r) + 1 = Len(Plan[r.op])
            \/ /\ Remaining(req'[t]) /\ Done(req'[t]) = Done(r) + 1
               /\ req'[t].op = r.op /\ req'[t].id = r.id /\ req'[t].enquiry = r.enquiry
<1> DEFINE q == [r EXCEPT !.todo = Tail(r.todo)]
<1>1. /\ r \in SubmitRequest /\ r.todo \in Seq(LeadSteps) /\ Len(r.todo) \in 1..Len(Plan[r.op])
      /\ Len(Plan[r.op]) \in Nat
  BY PlanShape DEF Remaining, SubmitRequest, PlanShaped
<1>2. /\ Tail(r.todo) \in Seq(LeadSteps) /\ Len(Tail(r.todo)) = Len(r.todo) - 1
      /\ \A k \in 1..Len(r.todo) - 1 : Tail(r.todo)[k] = r.todo[k + 1]
  BY <1>1
<1> DEFINE n == Len(Plan[r.op])
           m == Len(r.todo)
<1>3. n \in Nat /\ m \in 1..n /\ Done(r) = n - m
  BY <1>1 DEF Done
<1>4. CASE Tail(r.todo) = <<>>
  <2>1. Finish(t)
    BY <1>4 DEF Proceed
  <2>2. m - 1 = 0
    BY <1>2, <1>4
  <2> HIDE DEF n, m
  <2>3. Done(r) + 1 = n
    BY <1>3, <2>2
  <2>4. HandlersOK' /\ Moves(t, Idle) /\ req'[t] = Idle
    BY <2>1, FinishMoves DEF Moves
  <2>5. QED
    BY <2>3, <2>4 DEF n
<1>5. CASE Tail(r.todo) # <<>>
  <2>1. Continue(t, q) /\ Len(r.todo) > 1
    <3>1. Continue(t, q)
      BY <1>5 DEF Proceed
    <3>2. Len(Tail(r.todo)) > 0
      BY <1>2, <1>5
    <3> HIDE DEF q
    <3>3. QED
      BY <1>2, <1>3, <3>1, <3>2
  <2> DEFINE todo == Tail(r.todo)
  <2>2. /\ q \in SubmitRequest /\ "op" \in DOMAIN q /\ q.op = r.op /\ q.id = r.id
        /\ q.enquiry = r.enquiry /\ q.todo = todo
    BY <1>1, <1>2 DEF SubmitRequest
  <2> HIDE DEF q
  <2>3. HandlersOK' /\ Moves(t, q) /\ req'[t] = q
    BY <2>1, <2>2, ContinueMoves DEF Moves
  <2>4. Done(q) = Done(r) + 1 /\ Len(q.todo) \in 1..Len(Plan[q.op])
    <3>1. Len(q.todo) = m - 1 /\ Done(q) = n - Len(q.todo) /\ m > 1 /\ Len(Plan[q.op]) = n
      BY <1>2, <2>1, <2>2 DEF Done
    <3> HIDE DEF n, m
    <3>2. QED
      BY <1>3, <3>1
  <2>5. \A k \in 1..Len(q.todo) : q.todo[k] = Plan[q.op][Done(q) + k]
    <3> SUFFICES ASSUME NEW k \in 1..Len(q.todo) PROVE q.todo[k] = Plan[q.op][Done(q) + k]
      OBVIOUS
    <3>1. q.todo[k] = r.todo[k + 1] /\ k + 1 \in 1..Len(r.todo)
      BY <1>1, <1>2, <2>2
    <3>2. r.todo[k + 1] = Plan[r.op][Done(r) + (k + 1)]
      BY <3>1 DEF Remaining
    <3>3. Done(r) + (k + 1) = Done(q) + k
      <4>1. Done(r) \in Int /\ k \in Int
        BY <1>3
      <4>2. QED
        BY <2>4, <4>1
    <3>4. QED
      BY <2>2, <3>1, <3>2, <3>3
  <2>6. Remaining(q)
    BY <2>2, <2>4, <2>5 DEF Remaining
  <2>7. QED
    BY <2>2, <2>3, <2>4, <2>6
<1>6. QED
  BY <1>4, <1>5

(* A request about to store a lead that is looked up is next to the look-up. *)
LEMMA SavingWasLookup ==
  ASSUME NEW r, Remaining(r), NEW q, Remaining(q), q.op = r.op, q.enquiry = r.enquiry,
         Done(q) = Done(r) + 1, NEW f, NEW k \in Enquiries, SavingLike(q, f, k)
  PROVE  Head(r.todo) = "lookup"
<1>1. PlanShaped(Plan[r.op], SaveAt(r.op))
  BY NextInPlan, PlanShape
<1>2. Has(r.op, "lookup")
  BY LeadAssumptions DEF Remaining, SavingLike
<1>3. PICK i \in 1..Len(Plan[r.op]) : Plan[r.op][i] = "lookup"
  BY <1>1, <1>2 DEF Has, PlanShaped
<1>4. i = SaveAt(r.op) - 1 /\ SaveAt(r.op) \in Nat
  BY <1>1, <1>3 DEF PlanShaped
<1>5. Plan[r.op][Done(q) + 1] = "save" /\ Done(q) + 1 \in 1..Len(Plan[r.op])
  BY NextInPlan DEF SavingLike
<1>6. Done(q) + 1 = SaveAt(r.op)
  BY <1>1, <1>5 DEF PlanShaped, StepsBefore, StepsAfter, AwaitedSteps
<1>7. i = Done(r) + 1
  BY <1>4, <1>6, NextInPlan
<1>8. QED
  BY <1>3, <1>7, NextInPlan

LEMMA LeadInvInit == HandlersInit /\ LeadInit => LeadInv
<1> SUFFICES ASSUME HandlersInit, LeadInit PROVE LeadInv
  OBVIOUS
<1>1. \A t \in Requests : req[t] = Idle
  BY DEF HandlersInit
<1>2. LeadTypeOK /\ (\A l \in Leads : lead[l] = None) /\ Kept = {}
  BY DEF LeadInit, LeadTypeOK, Kept
<1>3. Idle.op \notin Forms /\ Idle.op # "reviewTransfer"
  BY IdleHasNoOperation DEF Forms, Plan
<1>4. LeadRequests
  BY <1>1, <1>3 DEF LeadRequests, SubmitTyping, ReviewTyping, LeadKnows, Submitting
<1>5. LeadIsKnown /\ LookupInv /\ SchoolInv
  BY <1>1, <1>2, <1>3 DEF LeadIsKnown, LookupInv, SchoolInv, SavingLike, Submitting
<1>6. ReviewInv
  <2>1. ASSUME NEW l \in Leads
        PROVE  approvalMails[l] + Cardinality(Congratulating(l)) <= entered[l]
    <3>1. Congratulating(l) = {}
      BY <1>1, <1>3 DEF Congratulating
    <3>2. approvalMails[l] = 0 /\ entered[l] = 0
      BY DEF LeadInit
    <3>3. QED
      BY <3>1, <3>2, FS_EmptySet
  <2>2. QED
    BY <1>1, <1>3, <2>1 DEF ReviewInv, Reviewing
<1>7. QED
  BY <1>2, <1>4, <1>5, <1>6 DEF LeadInv

-----------------------------------------------------------------------------
(* A step of a submission that stores nothing, and what the invariant asks of it. *)
Advances(t) ==
    /\ HandlersOK' /\ Moves(t, req'[t])
    /\ UNCHANGED <<adminEmail, lead, entered, approvalMails>>
    /\ overlapped \subseteq overlapped'
    /\ silenced \subseteq silenced' /\ silenced' \subseteq Leads
    /\ told' \in [Leads -> SUBSET {"email", "sms"}]
    /\ reported' \in [Leads -> SUBSET {"email", "sms"}]
    /\ \A l \in Leads : told[l] \subseteq told'[l] /\ reported[l] \subseteq reported'[l]
    /\ req[t].op # "reviewTransfer" /\ req'[t].op # "reviewTransfer"
    /\ SubmitTyping(req'[t]) /\ LeadKnows(req[t])'
    /\ \A l \in Leads \ silenced' :
          /\ lead[l] # None
          /\ Submitting(req[t]) /\ req[t].id = l
          /\ ~(Submitting(req'[t]) /\ req'[t].id = l)
          => AwaitedChannels(lead[l].form) \subseteq told'[l] \cup reported'[l]
    /\ \A f \in Forms, k \in Enquiries : SavingLike(req'[t], f, k) =>
          /\ \A l \in Kept : lead[l].form = f /\ lead[l].enquiry = k => ~lead[l].recent
          /\ "lookup" \notin overlapped' => \A u \in Requests \ {t} : ~SavingLike(req[u], f, k)

(* What was known stays known. *)
LEMMA KnowledgeStays ==
  ASSUME LeadInv, NEW r, SubmitTyping(r), LeadKnows(r),
         UNCHANGED adminEmail, silenced \subseteq silenced',
         \A l \in Leads : told[l] \subseteq told'[l] /\ reported[l] \subseteq reported'[l],
         \A l \in Leads : lead[l] # None => lead'[l] # None /\ lead'[l].form = lead[l].form,
         r.op = "reviewTransfer" => r.id \in Leads
  PROVE  LeadKnows(r)'
<1>1. CASE Submitting(r) /\ r.id # None
  <2>1. r.id \in Leads /\ lead[r.id] # None /\ lead[r.id].form = r.op
    BY <1>1 DEF LeadKnows, SubmitTyping, Remaining, SubmitRequest
  <2>2. ASSUME r.id \notin silenced', NEW j \in 1..Done(r), Covered(r.id, Plan[r.op][j])
        PROVE  Covered(r.id, Plan[r.op][j])'
    BY <2>1, <2>2 DEF Covered
  <2>3. r.op # "reviewTransfer"
    BY <1>1 DEF Submitting, Forms, Plan
  <2>4. QED
    BY <1>1, <2>1, <2>2, <2>3 DEF LeadKnows, Submitting
<1>2. CASE ~(Submitting(r) /\ r.id # None)
  BY <1>2 DEF LeadKnows, Submitting
<1>3. QED
  BY <1>1, <1>2

LEMMA AdvanceStep ==
  ASSUME HandlersOK, LeadInv, NEW t \in Requests, Advances(t)
  PROVE  LeadInv'
<1>1. /\ Moves(t, req'[t]) /\ UNCHANGED <<adminEmail, lead, entered, approvalMails, Kept>>
      /\ overlapped \subseteq overlapped' /\ silenced \subseteq silenced'
      /\ \A l \in Leads : told[l] \subseteq told'[l] /\ reported[l] \subseteq reported'[l]
  BY DEF Advances, Kept
<1>2. LeadTypeOK'
  BY <1>1 DEF Advances, LeadInv, LeadTypeOK
<1>3. LeadRequests'
  <2> SUFFICES ASSUME NEW u \in Requests
               PROVE  (SubmitTyping(req[u]) /\ ReviewTyping(req[u]) /\ LeadKnows(req[u]))'
    BY DEF LeadRequests
  <2>1. CASE u = t
    BY <2>1 DEF Advances, SubmitTyping, ReviewTyping, Submitting
  <2>2. CASE u # t
    <3>1. /\ req'[u] = req[u] /\ SubmitTyping(req[u]) /\ ReviewTyping(req[u]) /\ LeadKnows(req[u])
      BY <1>1, <2>2 DEF Moves, LeadInv, LeadRequests
    <3>2. PICK r : r = req[u]
      OBVIOUS
    <3>3. /\ SubmitTyping(r) /\ LeadKnows(r) /\ ReviewTyping(r)
          /\ r.op = "reviewTransfer" => r.id \in Leads
      BY <3>1, <3>2 DEF ReviewTyping, ReviewRequest
    <3>4. LeadKnows(r)'
      BY <1>1, <3>3, KnowledgeStays
    <3>5. r = req'[u]
      BY <3>1, <3>2
    <3>6. QED
      BY <3>3, <3>4, <3>5
  <2>3. QED
    BY <2>1, <2>2
<1>4. LeadIsKnown'
  <2> SUFFICES ASSUME NEW l \in Leads \ silenced', lead[l] # None,
                      \A u \in Requests : Submitting(req'[u]) => req'[u].id # l
               PROVE  AwaitedChannels(lead[l].form)' \subseteq told'[l] \cup reported'[l]
    BY <1>1 DEF LeadIsKnown, Submitting
  <2>1. AwaitedChannels(lead[l].form)' = AwaitedChannels(lead[l].form)
    BY <1>1 DEF AwaitedChannels
  <2>2. CASE Submitting(req[t]) /\ req[t].id = l
    BY <2>1, <2>2 DEF Advances
  <2>3. CASE ~(Submitting(req[t]) /\ req[t].id = l)
    <3>1. \A u \in Requests : Submitting(req[u]) => req[u].id # l
      BY <1>1, <2>3 DEF Moves
    <3>2. AwaitedChannels(lead[l].form) \subseteq told[l] \cup reported[l]
      BY <1>1, <3>1 DEF LeadInv, LeadIsKnown
    <3>3. QED
      BY <1>1, <2>1, <3>2
  <2>4. QED
    BY <2>2, <2>3
<1>5. LookupInv' /\ SchoolInv'
  <2>1. SchoolInv'
    BY <1>1 DEF LeadInv, SchoolInv, Alike
  <2>2. ASSUME "lookup" \notin overlapped', NEW u \in Requests, NEW f \in Forms,
               NEW k \in Enquiries, SavingLike(req'[u], f, k)
        PROVE  \/ u # t /\ SavingLike(req[u], f, k)
               \/ /\ u = t /\ \A v \in Requests \ {t} : ~SavingLike(req'[v], f, k)
                  /\ \A l \in Kept : lead[l].form = f /\ lead[l].enquiry = k => ~lead[l].recent
    BY <1>1, <2>2 DEF Moves, Advances
  <2>3. ASSUME "lookup" \notin overlapped', NEW u \in Requests, NEW v \in Requests,
               NEW f \in Forms, NEW k \in Enquiries,
               SavingLike(req'[u], f, k), SavingLike(req'[v], f, k)
        PROVE  u = v
    <3>1. CASE u = t \/ v = t
      BY <2>2, <2>3, <3>1
    <3>2. CASE u # t /\ v # t
      BY <1>1, <2>2, <2>3, <3>2 DEF LeadInv, LookupInv
    <3>3. QED
      BY <3>1, <3>2
  <2>4. ASSUME "lookup" \notin overlapped', NEW u \in Requests, NEW l \in Kept,
               lead[l].enquiry \in Enquiries,
               SavingLike(req'[u], lead[l].form, lead[l].enquiry)
        PROVE  ~lead[l].recent \/ lead[l].edited
    <3>1. lead[l].form \in Forms
      BY DEF LeadInv, LeadTypeOK, Lead, Kept
    <3>2. QED
      BY <1>1, <2>2, <2>4, <3>1 DEF LeadInv, LookupInv
  <2>5. ASSUME "lookup" \notin overlapped' PROVE "lookup" \notin overlapped
    BY <1>1, <2>5
  <2>6. LookupInv'
    BY <1>1, <2>3, <2>4, <2>5 DEF LeadInv, LookupInv, SavingLike, Submitting, Alike
  <2>7. QED
    BY <2>1, <2>6
<1>6. ReviewInv'
  <2>1. \A u \in Requests : req'[u] = req[u] \/
           (req[u].op # "reviewTransfer" /\ req'[u].op # "reviewTransfer")
    BY <1>1 DEF Advances, Moves
  <2>2. \A l : Congratulating(l)' = Congratulating(l)
    BY <2>1 DEF Congratulating
  <2>3. QED
    BY <1>1, <2>1, <2>2 DEF LeadInv, ReviewInv, Reviewing
<1>7. QED
  BY <1>2, <1>3, <1>4, <1>5, <1>6 DEF LeadInv

LEMMA IdleAdvances == Idle.op \notin Forms /\ Idle.op # "reviewTransfer"
BY IdleHasNoOperation DEF Forms, Plan

LEMMA FormsAreNoReview == "reviewTransfer" \notin Forms /\ "none" \notin Forms
BY DEF Forms, Plan

(* Where in its plan a request is, by what it does next. *)
LEMMA WhereInPlan ==
  ASSUME NEW r, Remaining(r)
  PROVE  /\ SaveAt(r.op) \in Nat /\ Done(r) \in Nat
         /\ Head(r.todo) \in StepsBefore => Done(r) + 1 < SaveAt(r.op)
         /\ Head(r.todo) = "save" => Done(r) + 1 = SaveAt(r.op)
         /\ Head(r.todo) \in StepsAfter => Done(r) + 1 > SaveAt(r.op)
<1>1. PlanShaped(Plan[r.op], SaveAt(r.op))
  BY NextInPlan, PlanShape
<1>2. Head(r.todo) = Plan[r.op][Done(r) + 1] /\ Done(r) + 1 \in 1..Len(Plan[r.op])
      /\ Done(r) \in Nat
  BY NextInPlan
<1> DEFINE p == Plan[r.op]
           s == SaveAt(r.op)
           d == Done(r) + 1
<1>3. /\ s \in Nat /\ d \in Nat /\ p[s] = "save" /\ Head(r.todo) = p[d]
      /\ d < s => p[d] \in StepsBefore
      /\ d > s => p[d] \in StepsAfter
  BY <1>1, <1>2 DEF PlanShaped
<1> HIDE DEF p, s, d
<1>4. /\ p[d] \in StepsBefore => d < s
      /\ p[d] = "save" => d = s
      /\ p[d] \in StepsAfter => d > s
  BY <1>3 DEF StepsBefore, StepsAfter, AwaitedSteps
<1>5. QED
  BY <1>2, <1>3, <1>4 DEF s, d

LEMMA NothingToldBefore ==
  ASSUME NEW p, NEW s, PlanShaped(p, s)
  PROVE  \A j \in 1..s : p[j] \notin AwaitedSteps
<1>1. s \in Nat /\ Len(p) \in Nat /\ s <= Len(p)
  BY DEF PlanShaped
<1>2. ASSUME NEW j \in 1..s PROVE p[j] \in StepsBefore \cup {"save"}
  <2>1. j \in 1..Len(p) /\ (j < s \/ j = s)
    BY <1>1
  <2>2. QED
    BY <2>1 DEF PlanShaped
<1>3. QED
  BY <1>2 DEF StepsBefore, AwaitedSteps

LEMMA AskAdvances ==
  ASSUME HandlersOK, LeadInv, NEW t \in Requests, LeadAsk(t)
  PROVE  Advances(t)
<1>1. PICK f \in Forms, k \in Enquiries \cup {None} :
         /\ k = None <=> ~Has(f, "lookup")
         /\ Start(t, [op |-> f, at |-> "submit", todo |-> Plan[f], enquiry |-> k, id |-> None])
  BY DEF LeadAsk
<1> DEFINE q == [op |-> f, at |-> "submit", todo |-> Plan[f], enquiry |-> k, id |-> None]
<1>2. PlanShaped(Plan[f], SaveAt(f))
  BY PlanShape
<1>3. /\ q \in SubmitRequest /\ "op" \in DOMAIN q /\ q.op = f /\ q.todo = Plan[f]
      /\ q.enquiry = k /\ q.id = None
  BY <1>1, <1>2 DEF SubmitRequest, PlanShaped
<1>4. Start(t, q)
  BY <1>1
<1> HIDE DEF q
<1>5. HandlersOK' /\ Moves(t, q) /\ req'[t] = q /\ req[t] = Idle
  BY <1>3, <1>4, StartMoves DEF Moves, Start
<1>6. /\ Len(Plan[f]) \in Nat /\ Len(Plan[f]) >= 1 /\ Done(q) = 0 /\ SaveAt(f) \in 1..Len(Plan[f])
  BY <1>2, <1>3 DEF PlanShaped, Done
<1>7. Remaining(q)
  BY <1>1, <1>3, <1>6 DEF Remaining
<1>8. SubmitTyping(q)
  BY <1>3, <1>6, <1>7 DEF SubmitTyping
<1>9. LeadKnows(req[t])'
  BY <1>3, <1>5, FormsAreNoReview DEF LeadKnows
<1>10. \A g, e : e \in Enquiries => ~SavingLike(q, g, e)
  <2> SUFFICES ASSUME NEW g, NEW e \in Enquiries, SavingLike(q, g, e) PROVE FALSE
    OBVIOUS
  <2>1. Has(f, "lookup") /\ Head(q.todo) = "save"
    BY <1>1, <1>3, LeadAssumptions DEF SavingLike
  <2>2. SaveAt(f) = 1
    BY <1>3, <1>6, <1>7, <2>1, WhereInPlan
  <2>3. PICK i \in 1..Len(Plan[f]) : Plan[f][i] = "lookup"
    BY <1>2, <2>1 DEF Has, PlanShaped
  <2>4. i = SaveAt(f) - 1
    BY <1>2, <2>3 DEF PlanShaped
  <2>5. QED
    BY <2>2, <2>3, <2>4
<1>11. UNCHANGED <<adminEmail, lead, told, reported, entered, approvalMails, silenced, overlapped>>
  BY DEF LeadAsk, leadVars
<1>12. LeadTypeOK
  BY DEF LeadInv
<1>13. QED
  BY <1>3, <1>5, <1>8, <1>9, <1>10, <1>11, <1>12, IdleAdvances, FormsAreNoReview
     DEF Advances, LeadTypeOK, Submitting, Moves

(* Before the insertion nothing is written, and only the look-up lets an insertion
   begin that another could repeat. *)
LEMMA BeforeAdvances ==
  ASSUME HandlersOK, LeadInv, NEW t \in Requests,
         Submitting(req[t]), Head(req[t].todo) \in StepsBefore,
         Proceed(t, req[t]) \/ Finish(t), UNCHANGED leadVars, overlapped \subseteq overlapped',
         Head(req[t].todo) = "lookup" /\ Proceed(t, req[t]) =>
            /\ Duplicates(req[t]) = {}
            /\ "lookup" \notin overlapped' => \A u \in Requests \ {t} : ~Saving(req[u], req[t])
  PROVE  Advances(t)
<1>1. SubmitTyping(req[t]) /\ Remaining(req[t])
  BY DEF LeadInv, LeadRequests, SubmitTyping
<1>2. /\ SaveAt(req[t].op) \in Nat /\ Done(req[t]) \in Nat /\ Done(req[t]) + 1 < SaveAt(req[t].op)
      /\ req[t].id = None /\ req[t].op # "reviewTransfer" /\ None \notin Leads
  BY <1>1, WhereInPlan, FormsAreNoReview, LeadAssumptions DEF SubmitTyping, Submitting
<1>3. /\ UNCHANGED <<adminEmail, lead, told, reported, entered, approvalMails, silenced>>
      /\ LeadTypeOK
  BY DEF leadVars, LeadInv
<1>4. CASE Finish(t)
  <2>1. HandlersOK' /\ Moves(t, req'[t]) /\ req'[t] = Idle
    BY <1>4, FinishMoves DEF Moves
  <2>2. SubmitTyping(req'[t]) /\ LeadKnows(req[t])' /\ \A f, k : ~SavingLike(req'[t], f, k)
    BY <2>1, IdleAdvances DEF SubmitTyping, LeadKnows, SavingLike, Submitting
  <2>3. QED
    BY <1>2, <1>3, <2>1, <2>2, IdleAdvances DEF Advances, LeadTypeOK
<1>5. CASE Proceed(t, req[t]) /\ ~Finish(t)
  <2>1. /\ HandlersOK' /\ Moves(t, req'[t])
        /\ Remaining(req'[t]) /\ Done(req'[t]) = Done(req[t]) + 1
        /\ req'[t].op = req[t].op /\ req'[t].id = None /\ req'[t].enquiry = req[t].enquiry
    <3>1. Tail(req[t].todo) # <<>>
      BY <1>5 DEF Proceed
    <3>2. req'[t] # Idle
      BY <1>5, <3>1, IdleAdvances DEF Proceed, Continue, HandlersOK, Submitting
    <3>3. QED
      BY <1>1, <1>2, <1>5, <3>2, ProceedOne
  <2>2. SubmitTyping(req'[t])
    BY <1>2, <2>1 DEF SubmitTyping
  <2>3. LeadKnows(req[t])'
    BY <1>2, <2>1 DEF LeadKnows
  <2>4. ASSUME NEW f \in Forms, NEW k \in Enquiries, SavingLike(req'[t], f, k)
        PROVE  /\ \A l \in Kept : lead[l].form = f /\ lead[l].enquiry = k => ~lead[l].recent
               /\ "lookup" \notin overlapped' =>
                     \A u \in Requests \ {t} : ~SavingLike(req[u], f, k)
    <3>1. Head(req[t].todo) = "lookup"
      BY <1>1, <2>1, <2>4, SavingWasLookup
    <3>2. req[t].op = f /\ req[t].enquiry = k
      BY <2>1, <2>4 DEF SavingLike
    <3>3. QED
      BY <1>5, <3>1, <3>2 DEF Duplicates, Saving, SavingLike
  <2>5. QED
    BY <1>2, <1>3, <2>1, <2>2, <2>3, <2>4 DEF Advances, LeadTypeOK
<1>6. QED
  BY <1>4, <1>5

LEMMA CoveredIsKnown ==
  ASSUME NEW f, NEW l, DOMAIN Plan[f] = 1..Len(Plan[f]),
         \A j \in 1..Len(Plan[f]) : Covered(l, Plan[f][j])
  PROVE  AwaitedChannels(f) \subseteq told[l] \cup reported[l]
BY DEF AwaitedChannels, Has, Covered, AwaitedSteps

(* After it, the admins come to know of the lead by each step that is awaited. *)
LEMMA AfterAdvances ==
  ASSUME HandlersOK, LeadInv, NEW t \in Requests, NEW r, r = req[t],
         Submitting(r), Head(r.todo) \in StepsAfter,
         Proceed(t, r) \/ (Finish(t) /\ Head(r.todo) = "userMailFirst"),
         UNCHANGED <<adminEmail, lead, entered, approvalMails, overlapped>>,
         silenced' \in {silenced, silenced \cup {r.id}},
         told' \in [Leads -> SUBSET {"email", "sms"}],
         reported' \in [Leads -> SUBSET {"email", "sms"}],
         \A l \in Leads : told[l] \subseteq told'[l] /\ reported[l] \subseteq reported'[l],
         r.id \in silenced' \/ Covered(r.id, Head(r.todo))'
  PROVE  Advances(t)
<1> DEFINE f == r.op
           l == r.id
           d == Done(r)
           s == SaveAt(f)
<1>1. /\ SubmitTyping(r) /\ Remaining(r) /\ LeadKnows(r)
  BY DEF LeadInv, LeadRequests, SubmitTyping
<1>2. /\ s \in Nat /\ d \in Nat /\ d + 1 > s /\ l \in Leads /\ f # "reviewTransfer" /\ f \in Forms
      /\ l # None
  BY <1>1, WhereInPlan, FormsAreNoReview, LeadAssumptions
     DEF SubmitTyping, Submitting, Remaining, SubmitRequest
<1>3. PlanShaped(Plan[f], s) /\ DOMAIN Plan[f] = 1..Len(Plan[f])
  BY <1>2, PlanShape DEF PlanShaped
<1>4. /\ lead[l] # None /\ lead[l].form = f
      /\ l \notin silenced => \A j \in 1..d : Covered(l, Plan[f][j])
      /\ Head(r.todo) = Plan[f][d + 1] /\ d + 1 \in 1..Len(Plan[f])
  BY <1>1, <1>2, NextInPlan DEF LeadKnows, Submitting
<1>5. l \notin silenced' => \A j \in 1..d + 1 : Covered(l, Plan[f][j])'
  <2> SUFFICES ASSUME l \notin silenced', NEW j \in 1..d + 1 PROVE Covered(l, Plan[f][j])'
    OBVIOUS
  <2>1. CASE j \in 1..d
    <3>1. Covered(l, Plan[f][j])
      BY <1>4, <2>1
    <3>2. QED
      BY <1>2, <3>1 DEF Covered
  <2>2. CASE j = d + 1
    BY <1>4, <2>2
  <2>3. QED
    BY <1>2, <2>1, <2>2
<1>6. HandlersOK' /\ Moves(t, req'[t]) /\ silenced \subseteq silenced' /\ silenced' \subseteq Leads
  BY <1>1, <1>2, ProceedOne, FinishMoves DEF Moves, LeadInv, LeadTypeOK
<1>7. CASE req'[t] = Idle
  <2>1. SubmitTyping(req'[t]) /\ LeadKnows(req[t])' /\ \A g, k : ~SavingLike(req'[t], g, k)
    BY <1>7, IdleAdvances DEF SubmitTyping, LeadKnows, SavingLike, Submitting
  <2>2. l \notin silenced' => AwaitedChannels(f) \subseteq told'[l] \cup reported'[l]
    <3>1. CASE Plan[f][d + 1] = "userMailFirst"
      <4>1. \A j \in 1..Len(Plan[f]) : Plan[f][j] \notin AwaitedSteps
        BY <1>3, <1>4, <3>1 DEF PlanShaped
      <4>2. QED
        BY <1>3, <4>1 DEF AwaitedChannels, Has, AwaitedSteps
    <3>2. CASE d + 1 = Len(Plan[f])
      BY <1>3, <1>5, <3>2 DEF AwaitedChannels, Has, Covered, AwaitedSteps
    <3>3. CASE Proceed(t, r)
      <4>1. Done(r) + 1 = Len(Plan[f]) \/ req'[t].op = f
        BY <1>1, <3>3, ProceedOne
      <4>2. Idle.op # f
        BY <1>2, IdleAdvances
      <4>3. QED
        BY <1>7, <3>2, <4>1, <4>2
    <3>4. QED
      BY <1>4, <3>1, <3>3
  <2>3. QED
    BY <1>2, <1>4, <1>6, <1>7, <2>1, <2>2, IdleAdvances DEF Advances
<1>8. CASE req'[t] # Idle
  <2>1. /\ Remaining(req'[t]) /\ Done(req'[t]) = d + 1
        /\ req'[t].op = f /\ req'[t].id = l /\ req'[t].enquiry = r.enquiry
    BY <1>1, <1>8, ProceedOne, FinishMoves DEF Moves
  <2>2. SubmitTyping(req'[t])
    BY <1>2, <2>1 DEF SubmitTyping
  <2>3. LeadKnows(req[t])'
    BY <1>2, <1>4, <1>5, <2>1 DEF LeadKnows
  <2>4. \A g, k : ~SavingLike(req'[t], g, k)
    BY <1>2, <2>1, WhereInPlan DEF SavingLike
  <2>5. Submitting(req'[t])
    BY <1>2, <2>1 DEF Submitting
  <2>6. QED
    BY <1>2, <1>6, <2>1, <2>2, <2>3, <2>4, <2>5 DEF Advances
<1>9. QED
  BY <1>7, <1>8

LEMMA LeadReadsAdvance ==
  ASSUME HandlersOK, LeadInv, NEW t \in Requests,
         LeadConfigured(t) \/ LeadNeeds(t) \/ LeadCount(t) \/ LeadLookup(t)
  PROVE  Advances(t)
<1>1. CASE LeadConfigured(t) \/ LeadNeeds(t) \/ LeadCount(t)
  <2>1. /\ Submitting(req[t]) /\ Head(req[t].todo) \in StepsBefore \ {"lookup"}
        /\ Proceed(t, req[t]) \/ Finish(t)
        /\ UNCHANGED <<leadVars, overlapped>>
    BY <1>1 DEF LeadConfigured, LeadNeeds, LeadCount, Doing, StepsBefore
  <2>2. QED
    BY <2>1, BeforeAdvances
<1>2. CASE LeadLookup(t) /\ ~Proceed(t, req[t])
  <2>1. /\ Submitting(req[t]) /\ Head(req[t].todo) \in StepsBefore
        /\ Finish(t) /\ UNCHANGED <<leadVars, overlapped>>
    BY <1>2 DEF LeadLookup, Doing, StepsBefore
  <2>2. QED
    BY <1>2, <2>1, BeforeAdvances
<1>3. CASE LeadLookup(t) /\ Proceed(t, req[t])
  <2>1. /\ Submitting(req[t]) /\ Head(req[t].todo) \in StepsBefore /\ UNCHANGED leadVars
    BY <1>3 DEF LeadLookup, Doing, StepsBefore
  <2>2. ASSUME Duplicates(req[t]) # {}, Finish(t) PROVE FALSE
    <3>1. req'[t] = Idle
      BY <2>2, FinishMoves DEF Moves
    <3>2. Remaining(req[t])
      BY <2>1 DEF LeadInv, LeadRequests, SubmitTyping
    <3>3. Done(req[t]) + 1 = Len(Plan[req[t].op])
      BY <1>3, <3>1, <3>2, ProceedOne, IdleAdvances DEF Remaining, SubmitRequest
    <3>4. Done(req[t]) + 1 < SaveAt(req[t].op) /\ SaveAt(req[t].op) \in 1..Len(Plan[req[t].op])
      BY <2>1, <3>2, WhereInPlan, NextInPlan, PlanShape DEF PlanShaped
    <3>5. QED
      BY <3>3, <3>4, NextInPlan, <3>2
  <2>3. Duplicates(req[t]) = {} /\ Overlap(t, "lookup", LAMBDA u : Saving(u, req[t]))
    BY <1>3, <2>2 DEF LeadLookup
  <2>4. /\ overlapped \subseteq overlapped'
        /\ "lookup" \notin overlapped' => \A u \in Requests \ {t} : ~Saving(req[u], req[t])
    BY <2>3 DEF Overlap
  <2>5. QED
    BY <1>3, <2>1, <2>3, <2>4, BeforeAdvances
<1>4. QED
  BY <1>1, <1>2, <1>3

LEMMA LeadTellsAdvance ==
  ASSUME HandlersOK, LeadInv, NEW t \in Requests,
         LeadNote(t) \/ LeadSkip(t) \/ LeadTell(t) \/ LeadReport(t)
  PROVE  Advances(t)
<1>1. PICK r : r = req[t]
  OBVIOUS
<1>2. /\ told \in [Leads -> SUBSET {"email", "sms"}]
      /\ reported \in [Leads -> SUBSET {"email", "sms"}]
  BY DEF LeadInv, LeadTypeOK
<1> DEFINE step == Head(r.todo)
<1>3. /\ Submitting(r) /\ step \in StepsAfter /\ Channel(step) \in {"email", "sms"}
      /\ UNCHANGED <<adminEmail, lead, entered, approvalMails, overlapped>>
  BY <1>1 DEF LeadNote, LeadSkip, LeadTell, LeadReport, Doing, StepsAfter, AwaitedSteps, leadVars,
     Channel
<1>4. CASE LeadNote(t)
  <2>1. /\ Proceed(t, r) \/ (Finish(t) /\ step = "userMailFirst")
        /\ UNCHANGED <<told, reported, silenced>> /\ step \notin AwaitedSteps
    BY <1>1, <1>4 DEF LeadNote, Doing, AwaitedSteps, leadVars
  <2>2. Covered(r.id, step)'
    BY <2>1 DEF Covered
  <2>3. QED
    BY <1>1, <1>2, <1>3, <2>1, <2>2, AfterAdvances
<1>5. CASE LeadSkip(t)
  <2>1. /\ Proceed(t, r) /\ UNCHANGED <<told, reported, silenced>>
        /\ step = "adminMail" /\ ~adminEmail
    BY <1>1, <1>5 DEF LeadSkip, Doing, leadVars
  <2>2. Covered(r.id, step)'
    BY <1>3, <2>1 DEF Covered
  <2>3. QED
    BY <1>1, <1>2, <1>3, <2>1, <2>2, AfterAdvances
<1> DEFINE l == r.id
           c == Channel(step)
<1>6. l \in Leads
  <2>1. SubmitTyping(r) /\ Remaining(r)
    BY <1>1, <1>3 DEF LeadInv, LeadRequests, SubmitTyping
  <2>2. l # None /\ r \in SubmitRequest
    BY <1>3, <2>1, WhereInPlan DEF SubmitTyping, Remaining
  <2>3. QED
    BY <2>2 DEF SubmitRequest
<1>7. CASE LeadTell(t)
  <2>1. /\ Proceed(t, r) /\ UNCHANGED <<reported, silenced>>
        /\ told' = [told EXCEPT ![l] = told[l] \cup {c}]
    BY <1>1, <1>7 DEF LeadTell
  <2> HIDE DEF c
  <2>2. /\ told' \in [Leads -> SUBSET {"email", "sms"}] /\ c \in told'[l]
        /\ \A m \in Leads : told[m] \subseteq told'[m]
    BY <1>2, <1>3, <1>6, <2>1 DEF c
  <2>3. Covered(l, step)'
    BY <2>2 DEF Covered, c
  <2>4. QED
    BY <1>1, <1>2, <1>3, <2>1, <2>2, <2>3, AfterAdvances
<1>8. CASE LeadReport(t)
  <2>1. /\ Proceed(t, r) /\ UNCHANGED told
        /\ \/ /\ reported' = [reported EXCEPT ![l] = reported[l] \cup {c}]
              /\ UNCHANGED silenced
           \/ silenced' = silenced \cup {l} /\ UNCHANGED reported
    BY <1>1, <1>8 DEF LeadReport
  <2> HIDE DEF c
  <2>2. /\ reported' \in [Leads -> SUBSET {"email", "sms"}]
        /\ c \in reported'[l] \/ l \in silenced'
        /\ \A m \in Leads : reported[m] \subseteq reported'[m]
    BY <1>2, <1>3, <1>6, <2>1 DEF c
  <2>3. l \in silenced' \/ Covered(l, step)'
    BY <2>2 DEF Covered, c
  <2>4. QED
    BY <1>1, <1>2, <1>3, <2>1, <2>2, <2>3, AfterAdvances
<1>9. QED
  BY <1>4, <1>5, <1>7, <1>8

LEMMA DeathAdvances ==
  ASSUME HandlersOK, LeadInv, NEW t \in Requests, LeadDies(t)
  PROVE  Advances(t)
<1>1. HandlersOK' /\ Moves(t, req'[t]) /\ req'[t] = Idle
  BY FinishMoves DEF LeadDies, Moves
<1>2. /\ UNCHANGED <<adminEmail, lead, told, reported, entered, approvalMails, overlapped>>
      /\ silenced' = silenced \cup ({req[t].id} \ {None}) /\ Submitting(req[t])
  BY DEF LeadDies, notices
<1>3. SubmitTyping(req'[t]) /\ LeadKnows(req[t])' /\ \A f, k : ~SavingLike(req'[t], f, k)
  BY <1>1, IdleAdvances DEF SubmitTyping, LeadKnows, SavingLike, Submitting
<1>4. req[t].id \in Leads \cup {None} /\ req[t].op # "reviewTransfer"
  BY <1>2, FormsAreNoReview
     DEF LeadInv, LeadRequests, SubmitTyping, Remaining, SubmitRequest, Submitting
<1>5. LeadTypeOK /\ None \notin Leads
  BY LeadAssumptions DEF LeadInv
<1>6. QED
  BY <1>1, <1>2, <1>3, <1>4, <1>5, IdleAdvances DEF Advances, LeadTypeOK

-----------------------------------------------------------------------------
(* The lead that is stored is the only one like it: its request has looked it up and
   no other one was about to store it, or the index has. *)
LEMMA LeadSaveStep ==
  ASSUME HandlersOK, LeadInv, NEW t \in Requests, LeadSave(t)
  PROVE  LeadInv'
<1>1. PICK r : r = req[t]
  OBVIOUS
<1> DEFINE f == r.op
           k == r.enquiry
<1>2. /\ Submitting(r) /\ Head(r.todo) = "save" /\ SubmitTyping(r) /\ Remaining(r)
      /\ r.op \in Forms /\ r.enquiry \in Enquiries \cup {None} /\ f # "reviewTransfer"
      /\ UNCHANGED <<adminEmail, told, reported, entered, approvalMails, silenced, overlapped>>
  BY <1>1, FormsAreNoReview
     DEF LeadSave, Doing, notices, LeadInv, LeadRequests, SubmitTyping, Remaining, SubmitRequest
<1>3. Done(r) + 1 = SaveAt(f) /\ r.id = None /\ Done(r) \in Nat /\ SaveAt(f) \in Nat
  BY <1>2, WhereInPlan DEF SubmitTyping
<1>4. CASE Finish(t) /\ UNCHANGED lead
  <2>1. HandlersOK' /\ Moves(t, req'[t]) /\ req'[t] = Idle
    BY <1>4, FinishMoves DEF Moves
  <2>2. SubmitTyping(req'[t]) /\ LeadKnows(req[t])' /\ \A g, e : ~SavingLike(req'[t], g, e)
    BY <2>1, IdleAdvances DEF SubmitTyping, LeadKnows, SavingLike, Submitting
  <2>3. Advances(t)
    BY <1>1, <1>2, <1>3, <1>4, <2>1, <2>2, IdleAdvances, LeadAssumptions
       DEF Advances, LeadInv, LeadTypeOK
  <2>4. QED
    BY <2>3, AdvanceStep
<1>5. CASE ~(Finish(t) /\ UNCHANGED lead)
  <2> DEFINE new == [form |-> f, enquiry |-> k, status |-> "pending",
                     recent |-> TRUE, edited |-> FALSE, deleted |-> FALSE]
  <2>1. PICK l \in Fresh({l \in Leads : lead[l] = None}) :
           /\ ~(f = "OdSchool" /\ Duplicates(r) # {})
           /\ Proceed(t, [r EXCEPT !.id = l])
           /\ lead' = [lead EXCEPT ![l] = new]
    BY <1>1, <1>5 DEF LeadSave
  <2>2. l \in Leads /\ lead[l] = None /\ l # None
    BY FreshIsFree, LeadAssumptions
  <2>3. /\ new \in Lead /\ new.form = f /\ new.enquiry = k /\ ~new.deleted /\ new # None
        /\ ~new.edited
    <3>1. /\ new \in Lead /\ new.form = f /\ new.enquiry = k /\ ~new.deleted
          /\ ~new.edited
      BY <1>2 DEF Lead, LeadStatuses
    <3>2. QED
      BY <3>1, LeadAssumptions
  <2> HIDE DEF new
  <2>4. /\ lead' \in [Leads -> Lead \cup {None}] /\ lead'[l] = new
        /\ \A m \in Leads \ {l} : lead'[m] = lead[m]
    BY <2>1, <2>2, <2>3 DEF LeadInv, LeadTypeOK
  <2>5. Kept' = Kept \cup {l} /\ l \notin Kept
    BY <2>2, <2>3, <2>4 DEF Kept
  <2> DEFINE q == [r EXCEPT !.id = l]
  <2>6. /\ q.op = f /\ q.enquiry = k /\ q.id = l /\ Remaining(q) /\ Done(q) = Done(r)
    BY <1>2, <2>2 DEF Remaining, SubmitRequest, Done
  <2> HIDE DEF q
  <2>7. /\ HandlersOK' /\ Moves(t, req'[t])
        /\ \/ req'[t] = Idle /\ Done(r) + 1 = Len(Plan[f])
           \/ /\ Remaining(req'[t]) /\ Done(req'[t]) = Done(r) + 1
              /\ req'[t].op = f /\ req'[t].id = l /\ req'[t].enquiry = k
    <3>1. Proceed(t, q)
      BY <2>1 DEF q
    <3>2. QED
      BY <2>6, <3>1, ProceedOne
  <2>8. \A j \in 1..Done(r) + 1 : Covered(l, Plan[f][j])'
    <3>1. PlanShaped(Plan[f], SaveAt(f))
      BY <1>2, PlanShape
    <3>2. \A j \in 1..SaveAt(f) : Plan[f][j] \notin AwaitedSteps
      BY <3>1, NothingToldBefore
    <3>3. QED
      BY <1>3, <3>2 DEF Covered
  <2>9. LeadTypeOK'
    BY <1>2, <2>4 DEF LeadInv, LeadTypeOK
  <2>10. LeadRequests'
    <3> SUFFICES ASSUME NEW u \in Requests
                 PROVE  (SubmitTyping(req[u]) /\ ReviewTyping(req[u]) /\ LeadKnows(req[u]))'
      BY DEF LeadRequests
    <3>1. CASE u = t /\ req'[t] = Idle
      BY <3>1, IdleAdvances DEF SubmitTyping, ReviewTyping, LeadKnows, Submitting
    <3>2. CASE u = t /\ req'[t] # Idle
      <4>1. SubmitTyping(req'[t]) /\ ReviewTyping(req'[t])
        BY <1>2, <1>3, <2>2, <2>7, <3>2 DEF SubmitTyping, ReviewTyping
      <4>2. LeadKnows(req[t])'
        BY <1>2, <2>3, <2>4, <2>7, <2>8, <3>2 DEF LeadKnows
      <4>3. QED
        BY <3>2, <4>1, <4>2 DEF SubmitTyping, ReviewTyping, Submitting
    <3>3. CASE u # t
      <4>1. /\ req'[u] = req[u] /\ SubmitTyping(req[u]) /\ ReviewTyping(req[u]) /\ LeadKnows(req[u])
        BY <2>7, <3>3 DEF Moves, LeadInv, LeadRequests
      <4>2. PICK v : v = req[u]
        OBVIOUS
      <4>3. /\ SubmitTyping(v) /\ LeadKnows(v) /\ ReviewTyping(v)
            /\ v.op = "reviewTransfer" => v.id \in Leads
        BY <4>1, <4>2 DEF ReviewTyping, ReviewRequest
      <4>4. \A m \in Leads : lead[m] # None => lead'[m] # None /\ lead'[m].form = lead[m].form
        BY <2>2, <2>4
      <4>5. LeadKnows(v)'
        BY <1>2, <4>3, <4>4, KnowledgeStays
      <4>6. v = req'[u]
        BY <4>1, <4>2
      <4>7. QED
        BY <4>3, <4>5, <4>6
    <3>4. QED
      BY <3>1, <3>2, <3>3
  <2>11. LeadIsKnown'
    <3> SUFFICES ASSUME NEW m \in Leads \ silenced, lead'[m] # None,
                        \A u \in Requests : Submitting(req'[u]) => req'[u].id # m
                 PROVE  AwaitedChannels(lead'[m].form) \subseteq told[m] \cup reported[m]
      BY <1>2 DEF LeadIsKnown, Submitting, AwaitedChannels
    <3>1. CASE m = l
      <4>1. req'[t] = Idle /\ Done(r) + 1 = Len(Plan[f])
        BY <1>2, <2>7, <3>1 DEF Submitting
      <4>2. \A j \in 1..Len(Plan[f]) : Covered(l, Plan[f][j])
        BY <1>2, <2>8, <4>1 DEF Covered
      <4>3. DOMAIN Plan[f] = 1..Len(Plan[f])
        BY <1>2, PlanShape DEF PlanShaped
      <4>4. QED
        BY <2>3, <2>4, <3>1, <4>2, <4>3, CoveredIsKnown
    <3>2. CASE m # l
      <4>1. \A u \in Requests : Submitting(req[u]) => req[u].id # m
        BY <1>1, <1>3, <2>7, <3>2, LeadAssumptions DEF Moves
      <4>2. QED
        BY <2>4, <3>2, <4>1 DEF LeadInv, LeadIsKnown
    <3>3. QED
      BY <3>1, <3>2
  <2>12. SchoolInv'
    <3>1. ASSUME NEW m \in Kept, lead[m].form = f, lead[m].enquiry = k, f = "OdSchool"
          PROVE  FALSE
      BY <2>1, <3>1 DEF Duplicates
    <3>2. ASSUME NEW m \in Kept', NEW o \in Kept', Alike(m, o)', lead'[m].form = "OdSchool",
                 lead'[m].enquiry \in Enquiries
          PROVE  m = o
      <4>1. CASE m = l /\ o # l
        <5>1. o \in Kept /\ lead[o].form = f /\ lead[o].enquiry = k /\ f = "OdSchool"
          BY <2>3, <2>4, <2>5, <3>2, <4>1 DEF Alike, Kept
        <5>2. QED
          BY <3>1, <5>1
      <4>2. CASE o = l /\ m # l
        <5>1. m \in Kept /\ lead[m].form = f /\ lead[m].enquiry = k /\ f = "OdSchool"
          BY <2>3, <2>4, <2>5, <3>2, <4>2 DEF Alike, Kept
        <5>2. QED
          BY <3>1, <5>1
      <4>3. CASE m # l /\ o # l
        <5>1. m \in Kept /\ o \in Kept /\ lead'[m] = lead[m] /\ lead'[o] = lead[o]
          BY <2>4, <2>5, <3>2, <4>3 DEF Kept
        <5>2. Alike(m, o) /\ lead[m].form = "OdSchool" /\ lead[m].enquiry \in Enquiries
          BY <3>2, <5>1 DEF Alike
        <5>3. QED
          BY <5>1, <5>2 DEF LeadInv, SchoolInv
      <4>4. QED
        BY <4>1, <4>2, <4>3
    <3>3. QED
      BY <3>2 DEF SchoolInv
  <2>13. LookupInv'
    <3>1. \A u \in Requests : \A g, e : SavingLike(req'[u], g, e) => u # t /\ SavingLike(req[u], g, e)
      <4>1. ~\E g, e : SavingLike(req'[t], g, e)
        BY <1>2, <1>3, <2>7, WhereInPlan, IdleAdvances DEF SavingLike, Submitting
      <4>2. QED
        BY <2>7, <4>1 DEF Moves
    <3>2. SavingLike(r, f, k)
      BY <1>2 DEF SavingLike
    <3> SUFFICES ASSUME "lookup" \notin overlapped PROVE LookupInv'
      BY <1>2 DEF LookupInv
    <3>3. ASSUME k \in Enquiries
          PROVE  /\ \A m \in Kept : lead[m].form = f /\ lead[m].enquiry = k =>
                       ~lead[m].recent \/ lead[m].edited
                 /\ \A u \in Requests \ {t} : ~SavingLike(req[u], f, k)
      BY <1>1, <1>2, <3>2, <3>3 DEF LeadInv, LookupInv
    <3>4. \A u \in Requests, m \in Kept' :
             /\ lead'[m].enquiry \in Enquiries
             /\ SavingLike(req'[u], lead'[m].form, lead'[m].enquiry)
             => ~lead'[m].recent \/ lead'[m].edited
      <4> SUFFICES ASSUME NEW u \in Requests, NEW m \in Kept', lead'[m].enquiry \in Enquiries,
                          SavingLike(req'[u], lead'[m].form, lead'[m].enquiry)
                   PROVE  ~lead'[m].recent \/ lead'[m].edited
        OBVIOUS
      <4>1. CASE m = l
        BY <2>3, <2>4, <3>1, <3>3, <4>1
      <4>2. CASE m # l
        BY <2>4, <2>5, <3>1, <4>2 DEF LeadInv, LookupInv, Kept
      <4>3. QED
        BY <4>1, <4>2
    <3>5. ASSUME NEW m \in Kept', NEW o \in Kept', Alike(m, o)', lead'[m].enquiry \in Enquiries,
                 ~lead'[m].edited, ~lead'[o].edited, lead'[m].recent, lead'[o].recent
          PROVE  m = o
      <4>1. CASE m = l /\ o # l
        BY <2>3, <2>4, <2>5, <3>3, <3>5, <4>1 DEF Alike, Kept
      <4>2. CASE o = l /\ m # l
        BY <2>3, <2>4, <2>5, <3>3, <3>5, <4>2 DEF Alike, Kept
      <4>3. CASE m # l /\ o # l
        BY <2>4, <2>5, <3>5, <4>3 DEF LeadInv, LookupInv, Alike, Kept
      <4>4. QED
        BY <4>1, <4>2, <4>3
    <3>6. \A u, v \in Requests, g \in Forms, e \in Enquiries :
             SavingLike(req'[u], g, e) /\ SavingLike(req'[v], g, e) => u = v
      BY <3>1 DEF LeadInv, LookupInv
    <3>7. QED
      BY <1>2, <3>4, <3>5, <3>6 DEF LookupInv, SavingLike, Submitting, Alike
  <2>14. ReviewInv'
    <3>1. \A u \in Requests : req'[u] = req[u] \/
             (req[u].op # "reviewTransfer" /\ req'[u].op # "reviewTransfer")
      BY <1>1, <1>2, <2>7, IdleAdvances DEF Moves
    <3>2. \A m : Congratulating(m)' = Congratulating(m)
      BY <3>1 DEF Congratulating
    <3>3. \A u \in Requests, m \in Leads : Reviewing(req'[u], m) =>
             Reviewing(req[u], m) /\ req'[u] = req[u] /\ lead'[m] = lead[m]
      BY <2>2, <2>4, <3>1 DEF Reviewing, LeadInv, LeadRequests, LeadKnows
    <3>4. QED
      BY <1>2, <3>2, <3>3 DEF LeadInv, ReviewInv, Reviewing
  <2>15. QED
    BY <2>9, <2>10, <2>11, <2>12, <2>13, <2>14 DEF LeadInv
<1>6. QED
  BY <1>4, <1>5

-----------------------------------------------------------------------------
(* Leads are only made less alike: edited, deleted, or out of their window. *)
LeadsFade ==
    /\ lead' \in [Leads -> Lead \cup {None}]
    /\ \A l \in Leads : /\ lead[l] # None <=> lead'[l] # None
                        /\ lead[l] # None => lead'[l].form = lead[l].form
    /\ Kept' \subseteq Kept
    /\ \A l \in Kept' :
          /\ \/ lead'[l].edited
             \/ /\ ~lead[l].edited /\ lead'[l].enquiry = lead[l].enquiry
                /\ lead'[l].recent => lead[l].recent
          /\ lead[l].form = "OdSchool" => lead'[l].enquiry = lead[l].enquiry

LEMMA FadingKeeps ==
  ASSUME LeadInv, LeadsFade, UNCHANGED <<adminEmail, told, reported, silenced>>,
         overlapped \subseteq overlapped',
         \A u \in Requests : req'[u] = req[u] \/ (~Submitting(req'[u]) /\ ~Submitting(req[u]))
  PROVE  LeadIsKnown' /\ SchoolInv' /\ LookupInv'
<1>1. LeadIsKnown'
  <2> SUFFICES ASSUME NEW m \in Leads \ silenced, lead'[m] # None,
                      \A u \in Requests : Submitting(req'[u]) => req'[u].id # m
               PROVE  AwaitedChannels(lead'[m].form) \subseteq told[m] \cup reported[m]
    BY DEF LeadIsKnown, Submitting, AwaitedChannels
  <2>1. \A u \in Requests : Submitting(req[u]) => req[u].id # m
    OBVIOUS
  <2>2. lead[m] # None /\ lead'[m].form = lead[m].form
    BY DEF LeadsFade
  <2>3. QED
    BY <2>1, <2>2 DEF LeadInv, LeadIsKnown
<1>2. SchoolInv'
  BY DEF LeadsFade, LeadInv, SchoolInv, Alike, Kept
<1>3. LookupInv'
  <2>1. \A u \in Requests : \A f, k : SavingLike(req'[u], f, k) => SavingLike(req[u], f, k)
    BY DEF SavingLike
  <2>2. \A l \in Kept' : lead[l].form \in Forms
    BY DEF LeadsFade, Kept, LeadInv, LeadTypeOK, Lead
  <2>3. "lookup" \notin overlapped' =>
           \A u, v \in Requests, f \in Forms, k \in Enquiries :
              SavingLike(req'[u], f, k) /\ SavingLike(req'[v], f, k) => u = v
    BY <2>1 DEF LeadInv, LookupInv
  <2>4. ASSUME "lookup" \notin overlapped', NEW u \in Requests, NEW l \in Kept',
               lead'[l].enquiry \in Enquiries,
               SavingLike(req'[u], lead'[l].form, lead'[l].enquiry)
        PROVE  ~lead'[l].recent \/ lead'[l].edited
    <3>1. l \in Kept /\ l \in Leads /\ lead[l] # None /\ lead'[l].form = lead[l].form
      BY DEF LeadsFade, Kept
    <3>2. SavingLike(req[u], lead[l].form, lead'[l].enquiry)
      BY <2>1, <2>4, <3>1
    <3>3. CASE ~lead'[l].edited
      <4>1. /\ ~lead[l].edited /\ lead'[l].enquiry = lead[l].enquiry
            /\ lead'[l].recent => lead[l].recent
        BY <3>3 DEF LeadsFade
      <4>2. ~lead[l].recent
        BY <2>4, <3>1, <3>2, <4>1 DEF LeadInv, LookupInv
      <4>3. QED
        BY <4>1, <4>2
    <3>4. QED
      BY <3>3
  <2>5. ASSUME "lookup" \notin overlapped', NEW l \in Kept', NEW m \in Kept', Alike(l, m)',
               lead'[l].enquiry \in Enquiries, ~lead'[l].edited, ~lead'[m].edited,
               lead'[l].recent, lead'[m].recent
        PROVE  l = m
    <3>1. /\ l \in Kept /\ m \in Kept
          /\ lead'[l].form = lead[l].form /\ lead'[m].form = lead[m].form
      BY DEF LeadsFade, Kept
    <3>2. /\ ~lead[l].edited /\ lead'[l].enquiry = lead[l].enquiry /\ lead[l].recent
          /\ ~lead[m].edited /\ lead'[m].enquiry = lead[m].enquiry /\ lead[m].recent
      BY <2>5 DEF LeadsFade
    <3>3. Alike(l, m) /\ lead[l].enquiry \in Enquiries
      BY <2>5, <3>1, <3>2 DEF Alike
    <3>4. QED
      BY <2>5, <3>1, <3>2, <3>3 DEF LeadInv, LookupInv
  <2>6. QED
    BY <2>3, <2>4, <2>5 DEF LookupInv, SavingLike, Submitting, Alike
<1>4. QED
  BY <1>1, <1>2, <1>3

LEMMA EditFades ==
  ASSUME LeadInv, NEW l \in Leads, LeadEdit(l) \/ LeadDelete(l) \/ WindowEnds(l)
  PROVE  /\ LeadsFade
         /\ \A m \in Leads : lead[m] # None /\ lead[m].form = "AirportTransfer" =>
               lead'[m].status = lead[m].status
<1>1. l \in Kept /\ lead[l] # None /\ lead[l] \in Lead /\ lead \in [Leads -> Lead \cup {None}]
  BY DEF LeadEdit, LeadDelete, WindowEnds, Kept, LeadInv, LeadTypeOK
<1>2. ASSUME NEW x \in Lead, lead' = [lead EXCEPT ![l] = x], x.form = lead[l].form,
             x.deleted \/ x.edited \/
                (~lead[l].edited /\ x.enquiry = lead[l].enquiry /\ (x.recent => lead[l].recent)),
             x.deleted \/ (x.form = "OdSchool" => x.enquiry = lead[l].enquiry),
             x.form = "AirportTransfer" => x.status = lead[l].status
      PROVE  /\ LeadsFade
             /\ \A m \in Leads : lead[m] # None /\ lead[m].form = "AirportTransfer" =>
                   lead'[m].status = lead[m].status
  <2>1. x # None
    BY LeadAssumptions
  <2>2. /\ lead' \in [Leads -> Lead \cup {None}] /\ lead'[l] = x
        /\ \A m \in Leads \ {l} : lead'[m] = lead[m]
    BY <1>1, <1>2
  <2>3. Kept' \subseteq Kept /\ (l \in Kept' => ~x.deleted)
    BY <1>1, <2>2 DEF Kept
  <2>4. \A m \in Kept' :
          /\ \/ lead'[m].edited
             \/ /\ ~lead[m].edited /\ lead'[m].enquiry = lead[m].enquiry
                /\ lead'[m].recent => lead[m].recent
          /\ lead[m].form = "OdSchool" => lead'[m].enquiry = lead[m].enquiry
    <3> SUFFICES ASSUME NEW m \in Kept'
                 PROVE  /\ \/ lead'[m].edited
                           \/ /\ ~lead[m].edited /\ lead'[m].enquiry = lead[m].enquiry
                              /\ lead'[m].recent => lead[m].recent
                        /\ lead[m].form = "OdSchool" => lead'[m].enquiry = lead[m].enquiry
      OBVIOUS
    <3>1. m \in Leads
      BY DEF Kept
    <3>2. CASE m = l
      BY <1>2, <2>2, <2>3, <3>2
    <3>3. CASE m # l
      BY <2>2, <3>1, <3>3
    <3>4. QED
      BY <3>2, <3>3
  <2>5. QED
    BY <1>1, <1>2, <2>1, <2>2, <2>3, <2>4 DEF LeadsFade
<1>3. CASE LeadEdit(l) /\ lead[l].form \in {"BookingRequest", "ScheduleConsultation"}
  <2>1. PICK k \in Enquiries :
           lead' = [lead EXCEPT ![l].enquiry = IF lead[l].enquiry = None THEN None ELSE k,
                                ![l].status = "other", ![l].edited = TRUE]
    BY <1>1, <1>3 DEF LeadEdit
  <2> DEFINE e == IF lead[l].enquiry = None THEN None ELSE k
             x == [lead[l] EXCEPT !.enquiry = e, !.status = "other", !.edited = TRUE]
  <2>2. lead' = [lead EXCEPT ![l] = x] /\ e \in Enquiries \cup {None}
    BY <1>1, <2>1
  <2> HIDE DEF e
  <2>3. x \in Lead /\ x.form = lead[l].form /\ x.edited
    BY <1>1, <2>2 DEF Lead, LeadStatuses
  <2> HIDE DEF x
  <2>4. QED
    BY <1>2, <1>3, <2>2, <2>3
<1>4. CASE LeadEdit(l) /\ lead[l].form = "JobApplication"
  <2> DEFINE x == [lead[l] EXCEPT !.status = "other"]
  <2>1. lead' = [lead EXCEPT ![l] = x]
    BY <1>1, <1>4 DEF LeadEdit
  <2>2. /\ x \in Lead /\ x.form = lead[l].form /\ x.edited = lead[l].edited
        /\ x.enquiry = lead[l].enquiry /\ x.recent = lead[l].recent
    BY <1>1 DEF Lead, LeadStatuses
  <2> HIDE DEF x
  <2>3. QED
    BY <1>2, <1>4, <2>1, <2>2
<1>5. CASE LeadDelete(l)
  <2> DEFINE x == [form |-> lead[l].form, enquiry |-> None, status |-> "other",
                   recent |-> FALSE, edited |-> FALSE, deleted |-> TRUE]
  <2>1. lead' = [lead EXCEPT ![l] = x]
    BY <1>1, <1>5 DEF LeadDelete
  <2>2. x \in Lead /\ x.form = lead[l].form /\ x.deleted
    BY <1>1 DEF Lead, LeadStatuses
  <2>3. x.form # "AirportTransfer"
    BY <1>5 DEF LeadDelete
  <2> HIDE DEF x
  <2>4. QED
    BY <1>2, <2>1, <2>2, <2>3
<1>6. CASE WindowEnds(l)
  <2> DEFINE x == [lead[l] EXCEPT !.recent = FALSE]
  <2>1. lead' = [lead EXCEPT ![l] = x]
    BY <1>1, <1>6 DEF WindowEnds
  <2>2. /\ x \in Lead /\ x.form = lead[l].form /\ x.edited = lead[l].edited
        /\ x.enquiry = lead[l].enquiry /\ ~x.recent /\ x.status = lead[l].status
    BY <1>1 DEF Lead
  <2> HIDE DEF x
  <2>3. QED
    BY <1>2, <2>1, <2>2
<1>7. QED
  BY <1>3, <1>4, <1>5, <1>6 DEF LeadEdit

LEMMA EditStep ==
  ASSUME HandlersOK, LeadInv, NEW l \in Leads, LeadEdit(l) \/ LeadDelete(l) \/ WindowEnds(l)
  PROVE  LeadInv'
<1>1. /\ LeadsFade
      /\ \A m \in Leads : lead[m] # None /\ lead[m].form = "AirportTransfer" =>
            lead'[m].status = lead[m].status
  BY EditFades
<1>2. UNCHANGED <<req, overlapped, adminEmail, told, reported, silenced, entered, approvalMails>>
  BY DEF LeadEdit, LeadDelete, WindowEnds, handlers, notices
<1>3. LeadIsKnown' /\ SchoolInv' /\ LookupInv'
  BY <1>1, <1>2, FadingKeeps
<1>4. LeadTypeOK'
  BY <1>1, <1>2 DEF LeadsFade, LeadInv, LeadTypeOK
<1>5. LeadRequests'
  <2> SUFFICES ASSUME NEW u \in Requests
               PROVE  (SubmitTyping(req[u]) /\ ReviewTyping(req[u]) /\ LeadKnows(req[u]))'
    BY DEF LeadRequests
  <2>1. PICK v : v = req[u]
    OBVIOUS
  <2>2. /\ SubmitTyping(v) /\ LeadKnows(v) /\ ReviewTyping(v)
        /\ v.op = "reviewTransfer" => v.id \in Leads
    BY <2>1 DEF LeadInv, LeadRequests, ReviewTyping, ReviewRequest
  <2>3. LeadKnows(v)'
    BY <1>1, <1>2, <2>2, KnowledgeStays DEF LeadsFade
  <2>4. v = req'[u]
    BY <1>2, <2>1
  <2>5. QED
    BY <2>2, <2>3, <2>4
<1>6. ReviewInv'
  <2>1. \A m : Congratulating(m)' = Congratulating(m)
    BY <1>2 DEF Congratulating
  <2>2. \A u \in Requests, m \in Leads : Reviewing(req[u], m) => lead'[m].status = lead[m].status
    BY <1>1 DEF Reviewing, LeadInv, LeadRequests, LeadKnows
  <2>3. QED
    BY <1>2, <2>1, <2>2 DEF LeadInv, ReviewInv, Reviewing
<1>7. QED
  BY <1>3, <1>4, <1>5, <1>6 DEF LeadInv

-----------------------------------------------------------------------------
(* A step of a review: all of the invariant but what it says of the reviews. *)
ReviewShift(t) ==
    /\ HandlersOK' /\ Moves(t, req'[t])
    /\ ~Submitting(req[t]) /\ ~Submitting(req'[t])
    /\ LeadsFade /\ UNCHANGED <<adminEmail, told, reported, silenced>>
    /\ overlapped \subseteq overlapped'
    /\ ReviewTyping(req'[t])
    /\ req'[t].op = "reviewTransfer" =>
          lead[req'[t].id] # None /\ lead[req'[t].id].form = "AirportTransfer"
    /\ entered' \in [Leads -> Nat] /\ approvalMails' \in [Leads -> Nat]

LEMMA ReviewShiftKeeps ==
  ASSUME HandlersOK, LeadInv, NEW t \in Requests, ReviewShift(t), ReviewInv'
  PROVE  LeadInv'
<1>1. \A u \in Requests : req'[u] = req[u] \/ (~Submitting(req'[u]) /\ ~Submitting(req[u]))
  BY DEF ReviewShift, Moves
<1>2. LeadIsKnown' /\ SchoolInv' /\ LookupInv'
  BY <1>1, FadingKeeps DEF ReviewShift
<1>3. LeadTypeOK'
  BY DEF ReviewShift, LeadsFade, LeadInv, LeadTypeOK
<1>4. LeadRequests'
  <2> SUFFICES ASSUME NEW u \in Requests
               PROVE  (SubmitTyping(req[u]) /\ ReviewTyping(req[u]) /\ LeadKnows(req[u]))'
    BY DEF LeadRequests
  <2>1. CASE u = t
    <3>1. ReviewTyping(req'[t]) /\ ~Submitting(req'[t])
      BY DEF ReviewShift
    <3>2. req'[t].op = "reviewTransfer" =>
             /\ req'[t].id \in Leads
             /\ lead'[req'[t].id] # None /\ lead'[req'[t].id].form = "AirportTransfer"
      BY DEF ReviewShift, ReviewTyping, ReviewRequest, LeadsFade
    <3>3. QED
      BY <2>1, <3>1, <3>2 DEF SubmitTyping, ReviewTyping, LeadKnows, Submitting
  <2>2. CASE u # t
    <3>1. /\ req'[u] = req[u] /\ SubmitTyping(req[u]) /\ ReviewTyping(req[u]) /\ LeadKnows(req[u])
      BY <2>2 DEF ReviewShift, Moves, LeadInv, LeadRequests
    <3>2. PICK v : v = req[u]
      OBVIOUS
    <3>3. /\ SubmitTyping(v) /\ LeadKnows(v) /\ ReviewTyping(v)
          /\ v.op = "reviewTransfer" => v.id \in Leads
      BY <3>1, <3>2 DEF ReviewTyping, ReviewRequest
    <3>4. LeadKnows(v)'
      BY <3>3, KnowledgeStays DEF ReviewShift, LeadsFade
    <3>5. v = req'[u]
      BY <3>1, <3>2
    <3>6. QED
      BY <3>3, <3>4, <3>5
  <2>3. QED
    BY <2>1, <2>2
<1>5. QED
  BY <1>2, <1>3, <1>4 DEF LeadInv

LEMMA CongratulatingIsFinite ==
  ASSUME NEW l
  PROVE  IsFiniteSet(Congratulating(l)) /\ Cardinality(Congratulating(l)) \in Nat
<1>1. Congratulating(l) \subseteq Requests
  BY DEF Congratulating
<1>2. QED
  BY <1>1, HandlersAssumptions, FS_Subset, FS_CardinalityType

(* The leads do not change, and neither does who is about to be congratulated. *)
LEMMA SameLeadsFade == ASSUME LeadInv, UNCHANGED lead PROVE LeadsFade
BY DEF LeadsFade, LeadInv, LeadTypeOK, Kept

LEMMA ReviewAskStep ==
  ASSUME HandlersOK, LeadInv, NEW t \in Requests, ReviewAsk(t)
  PROVE  HandlersOK' /\ LeadInv'
<1>1. PICK l \in Kept, s \in LeadStatuses :
         /\ lead[l].form = "AirportTransfer"
         /\ Start(t, [op |-> "reviewTransfer", at |-> "find", id |-> l, status |-> s, was |-> s])
  BY DEF ReviewAsk
<1>2. UNCHANGED <<leadVars, overlapped>>
  BY DEF ReviewAsk
<1> DEFINE r == [op |-> "reviewTransfer", at |-> "find", id |-> l, status |-> s, was |-> s]
<1>3. r \in ReviewRequest /\ "op" \in DOMAIN r /\ r.at = "find" /\ r.id = l /\ l \in Leads
      /\ lead[l] # None
  BY DEF ReviewRequest, Kept
<1> HIDE DEF r
<1>4. HandlersOK' /\ Moves(t, r) /\ req'[t] = r /\ req[t] = Idle
  BY <1>1, <1>3, StartMoves DEF r, Moves, Start
<1>5. r.op = "reviewTransfer"
  BY <1>3 DEF ReviewRequest
<1>6. ReviewShift(t)
  BY <1>1, <1>2, <1>3, <1>4, <1>5, IdleAdvances, FormsAreNoReview, SameLeadsFade
  DEF ReviewShift, Submitting, ReviewTyping, leadVars, LeadInv, LeadTypeOK
<1>7. ReviewInv'
  <2>1. \A u \in Requests : \A m : Reviewing(req'[u], m) => Reviewing(req[u], m) /\ req'[u] = req[u]
    BY <1>3, <1>4 DEF Moves, Reviewing
  <2>2. \A m : Congratulating(m)' = Congratulating(m)
    BY <1>3, <1>4, IdleHasNoOperation DEF Moves, Congratulating
  <2>3. QED
    BY <1>2, <2>1, <2>2 DEF LeadInv, ReviewInv, Reviewing, leadVars
<1>8. QED
  BY <1>4, <1>6, <1>7, ReviewShiftKeeps

LEMMA ReviewFindStep ==
  ASSUME HandlersOK, LeadInv, NEW t \in Requests, ReviewFind(t)
  PROVE  HandlersOK' /\ LeadInv'
<1> DEFINE l == req[t].id
           w == lead[l].status
           r == [req[t] EXCEPT !.at = "save", !.was = w]
<1>1. req[t] \in ReviewRequest /\ req[t].at = "find" /\ req[t].op = "reviewTransfer"
      /\ lead[l] # None /\ lead[l].form = "AirportTransfer" /\ l \in Leads
  BY DEF ReviewFind, At, LeadInv, LeadRequests, ReviewTyping, ReviewRequest, LeadKnows
<1>2. UNCHANGED leadVars /\ Continue(t, r)
      /\ Overlap(t, "review",
            LAMBDA u : u.op = req[t].op /\ u.at = "save" /\ u.id = req[t].id)
  BY DEF ReviewFind
<1>3. w \in LeadStatuses
  BY <1>1 DEF LeadInv, LeadTypeOK, Lead
<1> HIDE DEF w
<1>4. /\ r \in ReviewRequest /\ "op" \in DOMAIN r /\ r.at = "save" /\ r.id = l /\ r.was = w
      /\ r.op = "reviewTransfer" /\ r.status = req[t].status
  BY <1>1, <1>3 DEF ReviewRequest
<1> HIDE DEF r
<1>5. HandlersOK' /\ Moves(t, r) /\ req'[t] = r
  BY <1>2, <1>4, ContinueMoves DEF Moves
<1>6. /\ overlapped \subseteq overlapped'
      /\ "review" \notin overlapped' => \A u \in Requests \ {t} : ~Reviewing(req[u], l)
  BY <1>1, <1>2 DEF Overlap, Reviewing
<1>7. ReviewShift(t)
  <2>1. ~Submitting(req[t]) /\ ~Submitting(req'[t])
    BY <1>1, <1>4, <1>5, FormsAreNoReview DEF Submitting
  <2>2. LeadsFade /\ entered' \in [Leads -> Nat] /\ approvalMails' \in [Leads -> Nat]
    BY <1>2, SameLeadsFade DEF leadVars, LeadInv, LeadTypeOK
  <2>3. QED
    BY <1>1, <1>2, <1>4, <1>5, <1>6, <2>1, <2>2 DEF ReviewShift, ReviewTyping, leadVars
<1>8. ReviewInv'
  <2>1. \A m : Congratulating(m)' = Congratulating(m)
    BY <1>1, <1>4, <1>5 DEF Moves, Congratulating
  <2>2. \A u \in Requests, m \in Leads : Reviewing(req'[u], m) =>
           \/ u = t /\ m = l
           \/ u # t /\ Reviewing(req[u], m) /\ req'[u] = req[u]
    BY <1>4, <1>5 DEF Moves, Reviewing
  <2>3. \A u \in Requests \ {t} : "review" \notin overlapped' => ~Reviewing(req'[u], l)
    BY <1>5, <1>6 DEF Moves
  <2>4. req'[t].was = lead[l].status
    BY <1>4, <1>5 DEF w
  <2>5. UNCHANGED <<lead, approvalMails, entered>>
    BY <1>2 DEF leadVars
  <2>6. "review" \notin overlapped' =>
           \A u, v \in Requests, m \in Leads :
              Reviewing(req'[u], m) /\ Reviewing(req'[v], m) => u = v
    BY <1>6, <2>2, <2>3 DEF LeadInv, ReviewInv
  <2>7. "review" \notin overlapped' =>
           \A u \in Requests, m \in Leads : Reviewing(req'[u], m) => req'[u].was = lead[m].status
    BY <1>6, <2>2, <2>4 DEF LeadInv, ReviewInv
  <2>8. QED
    BY <1>6, <2>1, <2>5, <2>6, <2>7 DEF LeadInv, ReviewInv, Reviewing
<1>9. QED
  BY <1>5, <1>7, <1>8, ReviewShiftKeeps

LEMMA ReviewSaveFades ==
  ASSUME LeadInv, NEW t \in Requests, ReviewSave(t)
  PROVE  /\ LeadsFade
         /\ \A m \in Leads : m # req[t].id => lead'[m] = lead[m]
         /\ lead'[req[t].id].status = IF req[t].status # req[t].was THEN req[t].status
                                      ELSE lead[req[t].id].status
<1> DEFINE l == req[t].id
           s == req[t].status
           x == [lead[l] EXCEPT !.status = s]
<1>1. /\ req[t] \in ReviewRequest /\ lead[l] # None /\ lead[l].form = "AirportTransfer"
      /\ l \in Leads /\ s \in LeadStatuses
  BY DEF ReviewSave, At, LeadInv, LeadRequests, ReviewTyping, ReviewRequest, LeadKnows
<1>2. lead[l] \in Lead /\ lead \in [Leads -> Lead \cup {None}]
  BY <1>1 DEF LeadInv, LeadTypeOK
<1>3. CASE s # req[t].was
  <2>1. lead' = [lead EXCEPT ![l] = x]
    BY <1>2, <1>3 DEF ReviewSave
  <2>2. /\ x \in Lead /\ x.form = lead[l].form /\ x.edited = lead[l].edited /\ x.status = s
        /\ x.deleted = lead[l].deleted /\ x.enquiry = lead[l].enquiry
        /\ x.recent = lead[l].recent
    BY <1>1, <1>2 DEF Lead
  <2> HIDE DEF x
  <2>3. /\ lead' \in [Leads -> Lead \cup {None}] /\ lead'[l] = x
        /\ \A m \in Leads \ {l} : lead'[m] = lead[m]
    BY <1>1, <1>2, <2>1, <2>2
  <2>4. x # None
    BY <2>2, LeadAssumptions
  <2>5. Kept' \subseteq Kept
    BY <1>1, <2>2, <2>3 DEF Kept
  <2>6. \A m \in Kept' :
          /\ \/ lead'[m].edited
             \/ /\ ~lead[m].edited /\ lead'[m].enquiry = lead[m].enquiry
                /\ lead'[m].recent => lead[m].recent
          /\ lead[m].form = "OdSchool" => lead'[m].enquiry = lead[m].enquiry
    <3> SUFFICES ASSUME NEW m \in Kept'
                 PROVE  /\ \/ lead'[m].edited
                           \/ /\ ~lead[m].edited /\ lead'[m].enquiry = lead[m].enquiry
                              /\ lead'[m].recent => lead[m].recent
                        /\ lead[m].form = "OdSchool" => lead'[m].enquiry = lead[m].enquiry
      OBVIOUS
    <3>1. m \in Leads
      BY DEF Kept
    <3>2. CASE m = l
      BY <2>2, <2>3, <3>2
    <3>3. CASE m # l
      BY <2>3, <3>1, <3>3
    <3>4. QED
      BY <3>2, <3>3
  <2>7. LeadsFade
    BY <1>1, <2>2, <2>3, <2>4, <2>5, <2>6 DEF LeadsFade
  <2>8. QED
    BY <1>3, <2>2, <2>3, <2>7
<1>4. CASE s = req[t].was
  BY <1>4, SameLeadsFade DEF ReviewSave
<1>5. QED
  BY <1>3, <1>4

LEMMA ReviewSaveStep ==
  ASSUME HandlersOK, LeadInv, NEW t \in Requests, ReviewSave(t)
  PROVE  HandlersOK' /\ LeadInv'
<1> DEFINE l == req[t].id
           r == [req[t] EXCEPT !.at = "mail"]
<1>1. req[t] \in ReviewRequest /\ req[t].at = "save" /\ req[t].op = "reviewTransfer"
      /\ lead[l] # None /\ lead[l].form = "AirportTransfer" /\ l \in Leads
  BY DEF ReviewSave, At, LeadInv, LeadRequests, ReviewTyping, ReviewRequest, LeadKnows
<1>2. UNCHANGED <<adminEmail, told, reported, approvalMails, silenced, overlapped>>
      /\ Continue(t, r)
  BY DEF ReviewSave
<1>3. /\ r \in ReviewRequest /\ "op" \in DOMAIN r /\ r.at = "mail" /\ r.id = l
      /\ r.was = req[t].was /\ r.op = "reviewTransfer" /\ r.status = req[t].status
  BY <1>1 DEF ReviewRequest
<1> HIDE DEF r
<1>4. HandlersOK' /\ Moves(t, r) /\ req'[t] = r
  BY <1>2, <1>3, ContinueMoves DEF Moves
<1>5. entered \in [Leads -> Nat] /\ approvalMails \in [Leads -> Nat]
  BY DEF LeadInv, LeadTypeOK
<1> DEFINE enters == req[t].status # req[t].was /\ req[t].status = "approved"
                        /\ lead[l].status # "approved"
<1>6. /\ enters => entered' = [entered EXCEPT ![l] = entered[l] + 1]
      /\ ~enters => entered' = entered
  BY DEF ReviewSave
<1>7. entered' \in [Leads -> Nat]
  BY <1>1, <1>5, <1>6
<1>8. ReviewShift(t)
  <2>1. ~Submitting(req[t]) /\ ~Submitting(req'[t])
    BY <1>1, <1>3, <1>4, FormsAreNoReview DEF Submitting
  <2>2. QED
    BY <1>1, <1>2, <1>3, <1>4, <1>5, <1>7, <2>1, ReviewSaveFades DEF ReviewShift, ReviewTyping
<1>9. ReviewInv'
  <2> SUFFICES ASSUME "review" \notin overlapped PROVE ReviewInv'
    BY <1>2 DEF ReviewInv
  <2>1. /\ Reviewing(req[t], l)
        /\ \A u \in Requests \ {t} : ~Reviewing(req[u], l)
        /\ req[t].was = lead[l].status
    BY <1>1 DEF Reviewing, LeadInv, ReviewInv
  <2>2. \A u \in Requests, m \in Leads : Reviewing(req'[u], m) =>
           u # t /\ m # l /\ Reviewing(req[u], m) /\ req'[u] = req[u] /\ lead'[m] = lead[m]
    BY <1>3, <1>4, <2>1, ReviewSaveFades DEF Moves, Reviewing
  <2>3. ASSUME NEW m \in Leads
        PROVE  approvalMails[m] + Cardinality(Congratulating(m)') <= entered'[m]
    <3>1. approvalMails[m] + Cardinality(Congratulating(m)) <= entered[m]
          /\ entered[m] \in Nat /\ approvalMails[m] \in Nat
      BY <1>5 DEF LeadInv, ReviewInv
    <3>2. CASE m = l /\ enters
      <4>1. Congratulating(m)' = Congratulating(m) \cup {t} /\ t \notin Congratulating(m)
        BY <1>1, <1>3, <1>4, <2>1, <3>2 DEF Moves, Congratulating
      <4>2. Cardinality(Congratulating(m)') = Cardinality(Congratulating(m)) + 1
        BY <4>1, CongratulatingIsFinite, FS_AddElement
      <4>3. entered'[m] = entered[m] + 1
        BY <1>5, <1>6, <3>2
      <4>4. Cardinality(Congratulating(m)) \in Nat
        BY CongratulatingIsFinite
      <4>5. QED
        BY <3>1, <4>2, <4>3, <4>4
    <3>3. CASE ~(m = l /\ enters)
      <4>1. Congratulating(m)' = Congratulating(m)
        BY <1>1, <1>3, <1>4, <2>1, <3>3 DEF Moves, Congratulating
      <4>2. entered'[m] = entered[m]
        BY <1>5, <1>6, <3>3
      <4>3. QED
        BY <3>1, <4>1, <4>2
    <3>4. QED
      BY <3>2, <3>3
  <2>4. /\ \A u, v \in Requests, m \in Leads :
              Reviewing(req'[u], m) /\ Reviewing(req'[v], m) => u = v
        /\ \A u \in Requests, m \in Leads : Reviewing(req'[u], m) => req'[u].was = lead'[m].status
    BY <2>2 DEF LeadInv, ReviewInv
  <2>5. QED
    BY <1>2, <2>3, <2>4 DEF ReviewInv, Reviewing
<1>10. QED
  BY <1>4, <1>8, <1>9, ReviewShiftKeeps

LEMMA ReviewMailStep ==
  ASSUME HandlersOK, LeadInv, NEW t \in Requests, ReviewMail(t)
  PROVE  HandlersOK' /\ LeadInv'
<1> DEFINE l == req[t].id
<1>1. req[t] \in ReviewRequest /\ req[t].at = "mail" /\ req[t].op = "reviewTransfer" /\ l \in Leads
  BY DEF ReviewMail, At, LeadInv, LeadRequests, ReviewTyping, ReviewRequest
<1>2. UNCHANGED <<adminEmail, lead, told, reported, entered, silenced, overlapped>> /\ Finish(t)
  BY DEF ReviewMail
<1>3. HandlersOK' /\ Moves(t, Idle) /\ req'[t] = Idle
  BY <1>2, FinishMoves DEF Moves
<1>4. entered \in [Leads -> Nat] /\ approvalMails \in [Leads -> Nat]
  BY DEF LeadInv, LeadTypeOK
<1> DEFINE tells == req[t].status = "approved" /\ req[t].was # "approved"
<1>5. /\ tells => approvalMails' = [approvalMails EXCEPT ![l] = approvalMails[l] + 1]
      /\ ~tells => approvalMails' = approvalMails
  BY DEF ReviewMail
<1>6. ReviewShift(t)
  <2>1. ~Submitting(req[t]) /\ ~Submitting(req'[t]) /\ req'[t].op # "reviewTransfer"
    BY <1>1, <1>3, FormsAreNoReview, IdleAdvances DEF Submitting
  <2>2. approvalMails' \in [Leads -> Nat]
    BY <1>1, <1>4, <1>5
  <2>3. QED
    BY <1>2, <1>3, <1>4, <2>1, <2>2, SameLeadsFade DEF ReviewShift, ReviewTyping
<1>7. ReviewInv'
  <2>1. \A u \in Requests, m \in Leads : Reviewing(req'[u], m) =>
           Reviewing(req[u], m) /\ req'[u] = req[u]
    BY <1>3, IdleAdvances DEF Moves, Reviewing
  <2>2. ASSUME "review" \notin overlapped, NEW m \in Leads
        PROVE  approvalMails'[m] + Cardinality(Congratulating(m)') <= entered[m]
    <3>1. approvalMails[m] + Cardinality(Congratulating(m)) <= entered[m]
          /\ entered[m] \in Nat /\ approvalMails[m] \in Nat
      BY <1>4, <2>2 DEF LeadInv, ReviewInv
    <3>2. CASE m = l /\ tells
      <4>1. Congratulating(m)' = Congratulating(m) \ {t} /\ t \in Congratulating(m)
        BY <1>1, <1>3, <3>2, IdleAdvances DEF Moves, Congratulating
      <4>2. Cardinality(Congratulating(m)') = Cardinality(Congratulating(m)) - 1
        BY <4>1, CongratulatingIsFinite, FS_RemoveElement
      <4>3. approvalMails'[m] = approvalMails[m] + 1
        BY <1>4, <1>5, <3>2
      <4>4. Cardinality(Congratulating(m)) \in Nat
        BY CongratulatingIsFinite
      <4>5. QED
        BY <3>1, <4>2, <4>3, <4>4
    <3>3. CASE ~(m = l /\ tells)
      <4>1. Congratulating(m)' = Congratulating(m)
        BY <1>1, <1>3, <3>3, IdleAdvances DEF Moves, Congratulating
      <4>2. approvalMails'[m] = approvalMails[m]
        BY <1>4, <1>5, <3>3
      <4>3. QED
        BY <3>1, <4>1, <4>2
    <3>4. QED
      BY <3>2, <3>3
  <2>3. QED
    BY <1>2, <2>1, <2>2 DEF LeadInv, ReviewInv, Reviewing
<1>8. QED
  BY <1>3, <1>6, <1>7, ReviewShiftKeeps

(* Nothing else touches a lead, or a request to store one. *)
LEMMA LeadAsideStep ==
  ASSUME HandlersOK, LeadInv, LeadAside
  PROVE  LeadInv'
<1>1. /\ \A t \in Requests : req'[t] = req[t] \/
            (/\ req'[t].op \notin LeadOperations /\ ~Submitting(req[t]))
      /\ UNCHANGED <<adminEmail, lead, told, reported, entered, approvalMails, silenced>>
      /\ overlapped \subseteq overlapped'
  BY DEF LeadAside, Foreign, leadVars
<1>2. \A t \in Requests : req'[t] = req[t] \/
         (~Submitting(req[t]) /\ ~Submitting(req'[t]) /\ req'[t].op # "reviewTransfer")
  BY <1>1 DEF LeadOperations, Submitting
<1>3. LeadIsKnown' /\ SchoolInv' /\ LookupInv'
  BY <1>1, <1>2, SameLeadsFade, FadingKeeps
<1>4. LeadTypeOK'
  BY <1>1 DEF LeadInv, LeadTypeOK
<1>5. LeadRequests'
  <2> SUFFICES ASSUME NEW u \in Requests
               PROVE  (SubmitTyping(req[u]) /\ ReviewTyping(req[u]) /\ LeadKnows(req[u]))'
    BY DEF LeadRequests
  <2>1. CASE req'[u] = req[u]
    <3>1. PICK v : v = req[u]
      OBVIOUS
    <3>2. /\ SubmitTyping(v) /\ LeadKnows(v) /\ ReviewTyping(v)
          /\ v.op = "reviewTransfer" => v.id \in Leads
      BY <3>1 DEF LeadInv, LeadRequests, ReviewTyping, ReviewRequest
    <3>3. LeadKnows(v)'
      BY <1>1, <3>2, KnowledgeStays
    <3>4. v = req'[u]
      BY <2>1, <3>1
    <3>5. QED
      BY <3>2, <3>3, <3>4
  <2>2. CASE req'[u] # req[u]
    BY <1>2, <2>2 DEF SubmitTyping, ReviewTyping, LeadKnows, Submitting
  <2>3. QED
    BY <2>1, <2>2
<1>6. ReviewInv'
  <2>1. \A u \in Requests : \A m : Reviewing(req'[u], m) => Reviewing(req[u], m) /\ req'[u] = req[u]
    BY <1>2 DEF Reviewing
  <2>2. ASSUME "review" \notin overlapped, NEW m \in Leads
        PROVE  approvalMails[m] + Cardinality(Congratulating(m)') <= entered[m]
    <3>1. Congratulating(m)' \subseteq Congratulating(m)
      BY <1>2 DEF Congratulating
    <3>2. /\ IsFiniteSet(Congratulating(m)') /\ Cardinality(Congratulating(m)') \in Nat
          /\ Cardinality(Congratulating(m)') <= Cardinality(Congratulating(m))
      BY <3>1, CongratulatingIsFinite, FS_Subset, FS_CardinalityType
    <3>3. /\ Cardinality(Congratulating(m)) \in Nat /\ entered[m] \in Nat
          /\ approvalMails[m] \in Nat
          /\ approvalMails[m] + Cardinality(Congratulating(m)) <= entered[m]
      BY <2>2, CongratulatingIsFinite DEF LeadInv, LeadTypeOK, ReviewInv
    <3>4. QED
      BY <3>2, <3>3
  <2>3. QED
    BY <1>1, <2>1, <2>2 DEF LeadInv, ReviewInv, Reviewing
<1>7. QED
  BY <1>3, <1>4, <1>5, <1>6 DEF LeadInv

LEMMA LeadInvStep ==
  ASSUME HandlersOK, LeadInv, LeadNext \/ LeadAside
  PROVE  LeadInv'
<1>1. ASSUME NEW t \in Requests, LeadStep(t)
      PROVE  LeadInv'
  <2>1. CASE LeadAsk(t)
    BY <2>1, AskAdvances, AdvanceStep
  <2>2. CASE LeadConfigured(t) \/ LeadNeeds(t) \/ LeadCount(t) \/ LeadLookup(t)
    BY <2>2, LeadReadsAdvance, AdvanceStep
  <2>3. CASE LeadSave(t)
    BY <2>3, LeadSaveStep
  <2>4. CASE LeadNote(t) \/ LeadSkip(t) \/ LeadTell(t) \/ LeadReport(t)
    BY <2>4, LeadTellsAdvance, AdvanceStep
  <2>5. CASE LeadDies(t)
    BY <2>5, DeathAdvances, AdvanceStep
  <2>6. CASE ReviewAsk(t) \/ ReviewFind(t) \/ ReviewSave(t) \/ ReviewMail(t)
    BY <2>6, ReviewAskStep, ReviewFindStep, ReviewSaveStep, ReviewMailStep
  <2>7. QED
    BY <1>1, <2>1, <2>2, <2>3, <2>4, <2>5, <2>6 DEF LeadStep
<1>2. QED
  BY <1>1, EditStep, LeadAsideStep DEF LeadNext

LEMMA LeadInvImplies ==
  ASSUME LeadInv
  PROVE  OneLeadPerWindow /\ ApprovalMailedOnce
<1>1. ASSUME NEW l \in Kept, lead[l].enquiry # None
      PROVE  lead[l].enquiry \in Enquiries
  BY <1>1 DEF LeadInv, LeadTypeOK, Lead, Kept
<1>2. OneLeadPerWindow
  BY <1>1 DEF LeadInv, LookupInv, SchoolInv, Alike, OneLeadPerWindow
<1>3. ASSUME "review" \notin overlapped, NEW l \in Leads
      PROVE  approvalMails[l] <= entered[l]
  <2>1. /\ Cardinality(Congratulating(l)) \in Nat /\ entered[l] \in Nat
        /\ approvalMails[l] \in Nat
        /\ approvalMails[l] + Cardinality(Congratulating(l)) <= entered[l]
    BY <1>3, CongratulatingIsFinite DEF LeadInv, LeadTypeOK, ReviewInv
  <2>2. QED
    BY <2>1
<1>4. QED
  BY <1>2, <1>3 DEF ApprovalMailedOnce

(* What the rest of the process sees of a step of a lead. *)
LEMMA ProceedIsStepOf ==
  ASSUME HandlersOK, NEW t \in Requests, NEW r, Proceed(t, r) \/ Finish(t),
         "op" \in DOMAIN r, req[t].op \in LeadOperations, r.op = req[t].op,
         overlapped \subseteq overlapped'
  PROVE  HandlersOK' /\ StepOf(LeadOperations)
<1>1. CASE Finish(t)
  BY <1>1, IdleHasNoOperation, ContinueIsStepOf DEF Finish
<1>2. CASE Continue(t, [r EXCEPT !.todo = Tail(@)])
  <2>1. /\ "op" \in DOMAIN [r EXCEPT !.todo = Tail(@)]
        /\ [r EXCEPT !.todo = Tail(@)].op = r.op
    OBVIOUS
  <2>2. QED
    BY <1>2, <2>1, ContinueIsStepOf
<1>3. QED
  BY <1>1, <1>2 DEF Proceed

LEMMA LeadStepOf ==
  ASSUME HandlersOK, LeadNext
  PROVE  HandlersOK' /\ StepOf(LeadOperations)
<1>1. ASSUME NEW t \in Requests, LeadAsk(t) \/ ReviewAsk(t)
      PROVE  HandlersOK' /\ StepOf(LeadOperations)
  BY <1>1, IdleHasNoOperation
     DEF LeadAsk, ReviewAsk, HandlersOK, StepOf, LeadOperations, Start, Continue
<1>2. ASSUME NEW t \in Requests, LeadSave(t)
      PROVE  HandlersOK' /\ StepOf(LeadOperations)
  <2>1. ASSUME NEW l, Proceed(t, [req[t] EXCEPT !.id = l])
        PROVE  HandlersOK' /\ StepOf(LeadOperations)
    <3> DEFINE r == [req[t] EXCEPT !.id = l]
    <3>1. "op" \in DOMAIN r /\ r.op = req[t].op
      BY DEF HandlersOK
    <3>2. QED
      BY <1>2, <2>1, <3>1, ProceedIsStepOf DEF LeadSave, Doing, Submitting, LeadOperations
  <2>2. CASE Finish(t)
    BY <1>2, <2>2, ProceedIsStepOf DEF LeadSave, Doing, Submitting, LeadOperations, HandlersOK
  <2>3. QED
    BY <1>2, <2>1, <2>2 DEF LeadSave
<1>3. ASSUME NEW t \in Requests,
             \/ LeadConfigured(t) \/ LeadNeeds(t) \/ LeadCount(t) \/ LeadLookup(t)
             \/ LeadNote(t) \/ LeadSkip(t) \/ LeadTell(t) \/ LeadReport(t) \/ LeadDies(t)
      PROVE  HandlersOK' /\ StepOf(LeadOperations)
  <2>1. "op" \in DOMAIN req[t] /\ req[t].op \in LeadOperations /\ overlapped \subseteq overlapped'
    BY <1>3 DEF HandlersOK, LeadConfigured, LeadNeeds, LeadCount, LeadLookup, LeadNote, LeadSkip,
         LeadTell, LeadReport, LeadDies, Doing, Submitting, LeadOperations, Overlap
  <2>2. Proceed(t, req[t]) \/ Finish(t)
    BY <1>3 DEF LeadConfigured, LeadNeeds, LeadCount, LeadLookup, LeadNote, LeadSkip, LeadTell,
         LeadReport, LeadDies
  <2>3. QED
    BY <2>1, <2>2, ProceedIsStepOf
<1>4. ASSUME NEW t \in Requests, ReviewFind(t) \/ ReviewSave(t) \/ ReviewMail(t)
      PROVE  HandlersOK' /\ StepOf(LeadOperations)
  <2>1. CASE ReviewFind(t)
    <3> DEFINE r == [req[t] EXCEPT !.at = "save", !.was = lead[req[t].id].status]
    <3>1. "op" \in DOMAIN r /\ r.op = req[t].op
      BY DEF HandlersOK
    <3>2. Continue(t, r) /\ req[t].op \in LeadOperations /\ overlapped \subseteq overlapped'
      BY <2>1 DEF ReviewFind, At, LeadOperations, Overlap
    <3>3. QED
      BY <3>1, <3>2, ContinueIsStepOf
  <2>2. CASE ReviewSave(t) \/ ReviewMail(t)
    BY <2>2 DEF ReviewSave, ReviewMail, HandlersOK, StepOf, LeadOperations, Continue, Finish, Idle, At
  <2>3. QED
    BY <1>4, <2>1, <2>2
<1>5. CASE UNCHANGED handlers
  BY <1>5 DEF handlers, HandlersOK, StepOf
<1>6. QED
  BY <1>1, <1>2, <1>3, <1>4, <1>5 DEF LeadNext, LeadStep, LeadEdit, LeadDelete, WindowEnds

-----------------------------------------------------------------------------
(* No two services have an operation of one name, and none is that of a request
   that is not there. *)
LEMMA OperationsApart ==
  /\ RiderOperations \cap LegacyOperations = {} /\ RiderOperations \cap RideOperations = {}
  /\ RiderOperations \cap LeadOperations = {} /\ RiderOperations \cap NewsOperations = {}
  /\ LegacyOperations \cap RideOperations = {} /\ LegacyOperations \cap LeadOperations = {}
  /\ LegacyOperations \cap NewsOperations = {} /\ RideOperations \cap LeadOperations = {}
  /\ RideOperations \cap NewsOperations = {} /\ LeadOperations \cap NewsOperations = {}
  /\ "none" \notin RiderOperations \cup LegacyOperations \cup RideOperations
                     \cup LeadOperations \cup NewsOperations
<1>1. LeadOperations =
        {"ContactUs", "CustomQuote", "FleetManagement", "LeaseOptions", "ScheduleConsultation",
         "VerificationServices", "CarRentals", "MoServices", "InterstateBooking",
         "BookingRequest", "AirportTransfer", "OdSchool", "JobApplication", "OneWay",
         "ShuttleTrip", "GuestBooking", "PaystackBookings", "reviewTransfer"}
  BY DEF LeadOperations, Forms, Plan
<1>2. QED
  BY <1>1 DEF RiderOperations, LegacyOperations, RideOperations, NewsOperations

LEMMA LeadLeftAside ==
  ASSUME NEW others, StepOf(others), LeadOperations \cap others = {}, UNCHANGED leadVars
  PROVE  LeadAside
<1>1. "none" \notin LeadOperations
  BY OperationsApart
<1>2. Foreign(LeadOperations) /\ \A t \in Requests : req[t].op \in LeadOperations => req'[t] = req[t]
  BY <1>1, OthersAreForeign
<1>3. QED
  BY <1>2 DEF LeadAside, Submitting, LeadOperations

(* Each service's own invariant: none speaks of another service's documents. *)
OfficeInv ==
    HandlersOK /\ RiderInv /\ LegacyInv /\ RoomInv /\ RideInv /\ LeadInv /\ NewsInv

LEMMA OfficeInvInit == OfficeInit => OfficeInv
BY InitOK, RiderInvInit, LegacyInvInit, RoomInvInit, RideInvInit, LeadInvInit, NewsInvInit
DEF OfficeInit, OfficeInv

(* A step of a service is a step aside for the others. *)
LEMMA OfficeInvStep ==
  ASSUME OfficeInv, [OfficeNext]_officeVars
  PROVE  OfficeInv'
<1> USE DEF OfficeInv
<1>1. CASE RiderNext /\ UNCHANGED <<legacyVars, rideVars, leadVars, newsVars>>
  <2>1. HandlersOK' /\ StepOf(RiderOperations) /\ RiderInv'
    BY <1>1, RiderStepOf, RiderInvStep
  <2>2. LegacyAside /\ RideAside /\ LeadAside /\ NewsAside
    BY <1>1, <2>1, OthersAreForeign, LeadLeftAside, OperationsApart
       DEF LegacyAside, RideAside, NewsAside
  <2>3. QED
    BY <2>1, <2>2, LegacyInvStep, RoomInvStep, RideInvStep, LeadInvStep, NewsInvStep
<1>2. CASE LegacyNext /\ UNCHANGED <<riderVars, rideVars, leadVars, newsVars>>
  <2>1. HandlersOK' /\ StepOf(LegacyOperations) /\ LegacyInv' /\ RoomInv'
    BY <1>2, LegacyStepOf, LegacyInvStep, RoomInvStep
  <2>2. RiderAside /\ RideAside /\ LeadAside /\ NewsAside
    BY <1>2, <2>1, OthersAreForeign, LeadLeftAside, OperationsApart
       DEF RiderAside, RideAside, NewsAside
  <2>3. QED
    BY <2>1, <2>2, RiderInvStep, RideInvStep, LeadInvStep, NewsInvStep
<1>3. CASE RideNext /\ UNCHANGED <<riderVars, legacyVars, leadVars, newsVars>>
  <2>1. HandlersOK' /\ StepOf(RideOperations) /\ RideInv'
    BY <1>3, RideStepOf, RideInvStep
  <2>2. RiderAside /\ LegacyAside /\ LeadAside /\ NewsAside
    BY <1>3, <2>1, OthersAreForeign, LeadLeftAside, OperationsApart
       DEF RiderAside, LegacyAside, NewsAside
  <2>3. QED
    BY <2>1, <2>2, RiderInvStep, LegacyInvStep, RoomInvStep, LeadInvStep, NewsInvStep
<1>4. CASE LeadNext /\ UNCHANGED <<riderVars, legacyVars, rideVars, newsVars>>
  <2>1. HandlersOK' /\ StepOf(LeadOperations) /\ LeadInv'
    BY <1>4, LeadStepOf, LeadInvStep
  <2>2. RiderAside /\ LegacyAside /\ RideAside /\ NewsAside
    BY <1>4, <2>1, OthersAreForeign, OperationsApart
       DEF RiderAside, LegacyAside, RideAside, NewsAside
  <2>3. QED
    BY <2>1, <2>2, RiderInvStep, LegacyInvStep, RoomInvStep, RideInvStep, NewsInvStep
<1>5. CASE NewsNext /\ UNCHANGED <<riderVars, legacyVars, rideVars, leadVars>>
  <2>1. HandlersOK' /\ StepOf(NewsOperations) /\ NewsInv'
    BY <1>5, NewsStepOf, NewsInvStep
  <2>2. RiderAside /\ LegacyAside /\ RideAside /\ LeadAside
    BY <1>5, <2>1, OthersAreForeign, LeadLeftAside, OperationsApart
       DEF RiderAside, LegacyAside, RideAside
  <2>3. QED
    BY <2>1, <2>2, RiderInvStep, LegacyInvStep, RoomInvStep, RideInvStep, LeadInvStep
<1>6. CASE (\E t \in Requests : OfficeFail(t)) \/ UNCHANGED officeVars
  <2>1. HandlersOK' /\ RiderAside /\ LegacyAside /\ RideAside /\ LeadAside /\ NewsAside
    <3>1. ASSUME NEW t \in Requests, OfficeFail(t)
          PROVE  /\ HandlersOK' /\ RiderAside /\ LegacyAside /\ RideAside /\ LeadAside
                 /\ NewsAside
      <4>1. /\ HandlersOK' /\ Moves(t, Idle) /\ ~Submitting(req[t])
            /\ UNCHANGED <<riderVars, legacyVars, rideVars, leadVars, newsVars>>
        BY <3>1, FinishMoves DEF OfficeFail, Fail
      <4>2. /\ Foreign(RiderOperations) /\ Foreign(LegacyOperations) /\ Foreign(RideOperations)
            /\ Foreign(LeadOperations) /\ Foreign(NewsOperations)
        BY <3>1, FailIsForeign, OperationsApart DEF OfficeFail
      <4>3. \A u \in Requests : Submitting(req[u]) => req'[u] = req[u]
        BY <4>1 DEF Moves
      <4>4. QED
        BY <4>1, <4>2, <4>3 DEF RiderAside, LegacyAside, RideAside, LeadAside, NewsAside
    <3>2. CASE UNCHANGED officeVars
      BY <3>2 DEF officeVars, handlers, HandlersOK, Foreign, RiderAside, LegacyAside, RideAside,
                  LeadAside, NewsAside
    <3>3. QED
      BY <1>6, <3>1, <3>2
  <2>2. QED
    BY <2>1, RiderInvStep, LegacyInvStep, RoomInvStep, RideInvStep, LeadInvStep, NewsInvStep
<1>7. QED
  BY <1>1, <1>2, <1>3, <1>4, <1>5, <1>6 DEF OfficeNext

(* The services share the process and its death: whichever of their steps come in
   which order, each keeps its invariant. *)
THEOREM OfficeInvariant == OfficeSpec => []OfficeInv
<1>1. OfficeInit => OfficeInv
  BY OfficeInvInit
<1>2. OfficeInv /\ [OfficeNext]_officeVars => OfficeInv'
  BY OfficeInvStep
<1>3. QED
  BY <1>1, <1>2, PTL DEF OfficeSpec

(* What the office stores is of the kinds its schemas have, whatever its services
   do to one request of another. *)
THEOREM OfficeIsTyped == OfficeSpec => []OfficeTypeOK
<1>1. OfficeInv => OfficeTypeOK
  BY DEF OfficeInv, OfficeTypeOK, RiderInv, LegacyInv, RideInv, LeadInv, NewsInv
<1>2. QED
  BY <1>1, OfficeInvariant, PTL

(* resetPassword clears its token with the password it sets: a link sets one
   password, unless two settings of one account's password overlapped
   (auth.service.ts:372). *)
THEOREM TokensUsedOnce == OfficeSpec => []TokenUsedOnce
<1>1. OfficeInv => TokenUsedOnce
  BY RiderInvImplies DEF OfficeInv
<1>2. QED
  BY <1>1, OfficeInvariant, PTL

(* The last link forgotPassword sent a rider (auth.service.ts:328) is still theirs
   until it is used or its time is over, whatever else is changed of the account,
   unless it was issued while a reset was being saved. *)
THEOREM LatestLinksWork == OfficeSpec => []LatestLinkWorks
<1>1. OfficeInv => LatestLinkWorks
  BY RiderInvImplies DEF OfficeInv
<1>2. QED
  BY <1>1, OfficeInvariant, PTL

(* createUserBooking overbooks no trip (booking.service.ts:47), of any capacity and
   with any number of creations, unless two of them for one departure overlapped
   between the count and the insertion. *)
THEOREM TripsFit == OfficeSpec => []TripFits
<1>1. OfficeInv => TripFits
  BY RoomInvImplies DEF OfficeInv
<1>2. QED
  BY <1>1, OfficeInvariant, PTL

(* Whatever the office does is a step of the trips' bookings or one that leaves
   them, and the handlers that serve them, alone. *)
LEMMA LegacyLeftAside ==
  ASSUME OfficeInv, [OfficeNext]_officeVars
  PROVE  LegacyNext \/ LegacyAside
<1> USE DEF OfficeInv
<1>1. ASSUME NEW others, StepOf(others), LegacyOperations \cap others = {}, UNCHANGED legacyVars
      PROVE  LegacyAside
  BY <1>1, OthersAreForeign, OperationsApart DEF LegacyAside
<1>2. CASE RiderNext /\ UNCHANGED legacyVars
  BY <1>1, <1>2, RiderStepOf, OperationsApart
<1>3. CASE RideNext /\ UNCHANGED legacyVars
  BY <1>1, <1>3, RideStepOf, OperationsApart
<1>4. CASE LeadNext /\ UNCHANGED legacyVars
  BY <1>1, <1>4, LeadStepOf, OperationsApart
<1>5. CASE NewsNext /\ UNCHANGED legacyVars
  BY <1>1, <1>5, NewsStepOf, OperationsApart
<1>6. ASSUME NEW t \in Requests, OfficeFail(t) PROVE LegacyAside
  <2>1. Foreign(LegacyOperations) /\ UNCHANGED legacyVars
    BY <1>6, FailIsForeign, OperationsApart DEF OfficeFail
  <2>2. QED
    BY <1>6, <2>1 DEF LegacyAside, OfficeFail, Fail
<1>7. CASE UNCHANGED officeVars
  BY <1>7 DEF officeVars, handlers, Foreign, LegacyAside
<1>8. QED
  BY <1>2, <1>3, <1>4, <1>5, <1>6, <1>7 DEF OfficeNext

(* The old trips' bookings live BookingLifecycle too: whatever the webhook, the
   verification and the reconciliation do to one booking, and however often, it is
   paid only when Paystack charged one of its transactions in full, and it is never
   unpaid (payments.service.ts:714, :245; payment-reconciliation.service.ts:78). *)
THEOREM TripsLiveTheLifecycle == OfficeSpec => Trip!Spec
<1>1. OfficeInit => Trip!Init
  BY TripLifecycleInit DEF OfficeInit
<1>2. OfficeInv /\ [OfficeNext]_officeVars => [Trip!Next]_(Trip!lifecycle)
  BY LegacyLeftAside, TripLifecycleStep DEF OfficeInv
<1>3. QED
  BY <1>1, <1>2, OfficeInvariant, PTL DEF OfficeSpec, Trip!Spec

(* A trip's booking is paid, and logged as paid, by a full charge of one of its own
   transactions (handleBookingPayment, verifyPayment), whoever else verifies it
   meanwhile. *)
THEOREM LegacyPaidWereCharged == OfficeSpec => []LegacyPaidWasCharged
<1>1. OfficeInv => LegacyPaidWasCharged
  BY DEF OfficeInv, LegacyInv
<1>2. QED
  BY <1>1, OfficeInvariant, PTL

(* Paystack is not answered 200 for a full charge of the reference a booking still
   has (handleBookingPayment) while the booking is unpaid or the log silent. *)
THEOREM LegacyAnsweredArePaid == OfficeSpec => []LegacyAnsweredIsPaid
<1>1. OfficeInv => LegacyAnsweredIsPaid
  BY DEF OfficeInv, LegacyInv
<1>2. QED
  BY <1>1, OfficeInvariant, PTL

(* The history of a ride is a path of the table of transitions that ends with its
   status (shuttle-booking.service.ts:231), for any number of changes, unless two of
   one ride overlapped. *)
THEOREM HistoriesAreLegal == OfficeSpec => []HistoryIsLegal
<1>1. OfficeInv => HistoryIsLegal
  BY RideInvImplies DEF OfficeInv
<1>2. QED
  BY <1>1, OfficeInvariant, PTL

(* The parts of a stored price add up to the total that is charged, for every
   tariff, distance, party and surge (pricing.engine.ts:52). *)
THEOREM BreakdownsAddUp == OfficeSpec => []BreakdownAddsUp
<1>1. OfficeInv => BreakdownAddsUp
  BY DEF OfficeInv, RideInv
<1>2. QED
  BY <1>1, OfficeInvariant, PTL

(* getDistanceKm keeps one distance of a route (maps.service.ts:33), however many
   routes are measured at once, unless two measurements of one overlapped. *)
THEOREM RoutesMeasuredOnce == OfficeSpec => []RouteMeasuredOnce
<1>1. OfficeInv => RouteMeasuredOnce
  BY DEF OfficeInv, RideInv
<1>2. QED
  BY <1>1, OfficeInvariant, PTL

(* Nobody who left an enquiry is forgotten (admin-notification-failure.ts:6): for
   every form, with any number of them in flight, the admins were told or the log
   says that they were not. *)
THEOREM LeadsAreKnown == OfficeSpec => []LeadIsKnown
<1>1. OfficeInv => LeadIsKnown
  BY DEF OfficeInv, LeadInv
<1>2. QED
  BY <1>1, OfficeInvariant, PTL

(* A form sent twice is stored once within the window of its look-up
   (booking-request.service.ts:38), unless the look-up of one overlapped the other's
   insertion, and always where the schema has unique indexes (od-school.schema.ts). *)
THEOREM LeadsAreNotDoubled == OfficeSpec => []OneLeadPerWindow
<1>1. OfficeInv => OneLeadPerWindow
  BY LeadInvImplies DEF OfficeInv
<1>2. QED
  BY <1>1, OfficeInvariant, PTL

(* updateStatus congratulates a customer at most as often as their transfer became
   approved (airport-transfer.service.ts:100), however many administrators review it in
   turn, unless two reviews of it overlapped. *)
THEOREM ApprovalsMailedOnce == OfficeSpec => []ApprovalMailedOnce
<1>1. OfficeInv => ApprovalMailedOnce
  BY LeadInvImplies DEF OfficeInv
<1>2. QED
  BY <1>1, OfficeInvariant, PTL

(* An article's slug is made of the title it has (newsroom.service.ts:227), for any
   titles and any number of edits, unless two edits of it overlapped. *)
THEOREM SlugsFollowTitles == OfficeSpec => []SlugFollowsTitle
<1>1. OfficeInv => SlugFollowsTitle
  BY DEF OfficeInv, NewsInv
<1>2. QED
  BY <1>1, OfficeInvariant, PTL

(* A reader has one pending request to leave the mailing list
   (newsletter.service.ts:85), unless two requests of theirs overlapped or an
   administrator opened one again. *)
THEOREM OneRequestPending == OfficeSpec => []OnePendingRequest
<1>1. OfficeInv => OnePendingRequest
  BY DEF OfficeInv, NewsInv
<1>2. QED
  BY <1>1, OfficeInvariant, PTL
=============================================================================
