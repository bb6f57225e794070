------------------------ MODULE EventsCatalogProofs ------------------------
(***************************************************************************)
(* Proofs about EventsCatalog, for any events, categories, orders, files   *)
(* and requests in flight, with MinIO or AWS: its types, that no race of   *)
(* deletions, checkouts and new categories breaks a reference, and what    *)
(* becomes of the posters.                                                 *)
(***************************************************************************)
EXTENDS EventsCatalog, TLAPS

USE NoneIsNothing, UrlsAreUrls, CatalogBounds

\* Every variable of the catalogue has its type.
THEOREM CatalogTyped == Spec => []TypeOK
<1>1. Init => TypeOK
  BY DEF Init, TypeOK, Row, Steps
<1>2. TypeOK /\ [Next]_vars => TypeOK'
  <2> SUFFICES ASSUME TypeOK, [Next]_vars PROVE TypeOK'
    OBVIOUS
  <2> USE DEF TypeOK, Row, Steps, PosterSteps, events, categories, sales, storage, procs
  <2>1. ASSUME NEW h \in Handlers, NEW step \in Steps, NEW e \in Events \cup {None},
               NEW c \in Categories \cup {None}, NEW url \in Urls \cup {None},
               step \notin {"idle", "create", "upload"} => e \in Events,
               step \in {"countCategory", "deleteCategory", "reserve"} => c \in Categories,
               step \notin {"deleteOld", "deletePoster"},
               Start(h, step, e, c, url)
        PROVE  TypeOK'
    BY <2>1 DEF Start
  <2>2. ASSUME NEW h \in Handlers, Arrive(h) PROVE TypeOK'
    <3>1. CASE Create(h)
      BY <2>1, <3>1 DEF Create
    <3>2. ASSUME NEW e \in Events, Update(h, e) \/ Remove(h, e) PROVE TypeOK'
      <4>1. poster[e] \in Urls \cup {None}
        OBVIOUS
      <4>2. ASSUME NEW step \in Steps \ {"deleteOld", "deletePoster", "countCategory",
                                          "deleteCategory", "reserve"},
                   Start(h, step, e, None, poster[e])
            PROVE  TypeOK'
        BY <2>1, <4>1, <4>2
      <4> HIDE DEF TypeOK
      <4>3. QED
        BY <3>2, <4>2 DEF Update, Remove
    <3>3. ASSUME NEW e \in Events, UpdateStatus(h, e) \/ AddCategory(h, e) PROVE TypeOK'
      BY <2>1, <3>3 DEF UpdateStatus, AddCategory
    <3>4. ASSUME NEW c \in Categories, RemoveCategory(h, c) \/ Checkout(h, c) PROVE TypeOK'
      <4>1. home[c] \in Events
        BY <3>4 DEF RemoveCategory, Checkout
      <4>2. QED
        BY <2>1, <3>4, <4>1 DEF RemoveCategory, Checkout
    <3>5. QED
      BY <2>2, <3>1, <3>2, <3>3, <3>4 DEF Arrive
  <2>3. ASSUME NEW h \in Handlers, NEW f \in Files, Upload(h, f) PROVE TypeOK'
    BY <2>3 DEF Upload
  <2>4. ASSUME NEW f \in Files PROVE UrlOf(f) \in Urls
    BY DEF UrlOf, Urls
  <2>5. ASSUME NEW h \in Handlers, NEW e \in Events, InsertEvent(h, e) PROVE TypeOK'
    BY <2>4, <2>5 DEF InsertEvent, Return
  <2>6. ASSUME NEW h \in Handlers, DeleteFile(h) PROVE TypeOK'
    BY <2>6 DEF DeleteFile, Await
  <2>7. ASSUME NEW h \in Handlers, UpdateEvent(h) PROVE TypeOK'
    BY <2>4, <2>7 DEF UpdateEvent, UrlAfter, Return
  <2>8. ASSUME NEW h \in Handlers, NEW s \in {"DRAFT", "PUBLISHED"}, SetStatus(h, s)
        PROVE  TypeOK'
    BY <2>8 DEF SetStatus, Return
  <2>9. ASSUME NEW h \in Handlers, Cancel(h) PROVE TypeOK'
    BY <2>9 DEF Cancel, Return
  <2>10. ASSUME NEW h \in Handlers, Count(h) PROVE TypeOK'
    BY <2>10 DEF Count, Await, Return
  <2>11. ASSUME NEW h \in Handlers, DeleteEvent(h) PROVE TypeOK'
    BY <2>11 DEF DeleteEvent, Cascade, Return
  <2>12. ASSUME NEW h \in Handlers, NEW c \in Categories, InsertCategory(h, c) PROVE TypeOK'
    <3>1. on[h] \in Events
      BY <2>12 DEF InsertCategory
    <3>2. home' \in [Categories -> Events \cup {None}]
      BY <2>12, <3>1 DEF InsertCategory
    <3>3. categoryRow' \in [Categories -> Row]
      BY <2>12 DEF InsertCategory
    <3>4. \A d \in Categories : categoryRow'[d] # "unborn" => home'[d] \in Events
      BY <2>12, <3>1 DEF InsertCategory
    <3>5. QED
      BY <2>12, <3>2, <3>3, <3>4 DEF InsertCategory, Return
  <2>13. ASSUME NEW h \in Handlers, CountCategory(h) PROVE TypeOK'
    BY <2>13 DEF CountCategory, Await, Return
  <2>14. ASSUME NEW h \in Handlers, DeleteCategory(h) PROVE TypeOK'
    BY <2>14 DEF DeleteCategory, Return
  <2>15. ASSUME NEW h \in Handlers, NEW o \in Orders, Reserve(h, o) PROVE TypeOK'
    <3>1. cat[h] \in Categories
      BY <2>15 DEF Reserve
    <3>2. bought' \in [Orders -> Categories \cup {None}]
      BY <2>15, <3>1 DEF Reserve
    <3>3. order' \in [Orders -> {"unborn", "PENDING", "PAID", "settled"}]
      BY <2>15 DEF Reserve
    <3>4. \A p \in Orders : order'[p] # "unborn" => bought'[p] \in Categories
      BY <2>15, <3>1 DEF Reserve
    <3>5. QED
      BY <2>15, <3>2, <3>3, <3>4 DEF Reserve, Return
  <2>16. ASSUME NEW o \in Orders, OrderMoves(o) PROVE TypeOK'
    BY <2>16 DEF OrderMoves, Active
  <2>17. ASSUME NEW h \in Handlers, Rejects(h) PROVE TypeOK'
    BY <2>17 DEF Rejects, Return
  <2>18. CASE Crash
    BY <2>18 DEF Crash
  <2>19. CASE UNCHANGED vars
    BY <2>19 DEF vars
  <2> HIDE DEF TypeOK, Row, Steps, PosterSteps, events, categories, sales, storage, procs
  <2>20. QED
    BY <2>2, <2>3, <2>5, <2>6, <2>7, <2>8, <2>9, <2>10, <2>11, <2>12, <2>13, <2>14,
       <2>15, <2>16, <2>17, <2>18, <2>19 DEF Next, Continue
<1>3. QED
  BY <1>1, <1>2, PTL DEF Spec

-----------------------------------------------------------------------------

\* No deletion takes the category of an order or the event of a category away.
THEOREM RowsStayThere == Spec => []RowsAreThere
<1>1. Init => RowsAreThere
  BY DEF Init, RowsAreThere
<1>2. TypeOK /\ RowsAreThere /\ [Next]_vars => RowsAreThere'
  <2> SUFFICES ASSUME TypeOK, RowsAreThere, [Next]_vars PROVE RowsAreThere'
    OBVIOUS
  <2> USE DEF RowsAreThere, events, categories, sales, storage, procs
  <2>1. ASSUME UNCHANGED <<eventRow, categories, sales>> PROVE RowsAreThere'
    BY <2>1
  <2>2. ASSUME NEW h \in Handlers, NEW e \in Events, InsertEvent(h, e) PROVE RowsAreThere'
    BY <2>2 DEF InsertEvent, TypeOK
  <2>3. ASSUME NEW h \in Handlers, Cancel(h) PROVE RowsAreThere'
    BY <2>3 DEF Cancel
  <2>4. ASSUME NEW h \in Handlers, DeleteEvent(h) PROVE RowsAreThere'
    <3>1. CASE eventRow[on[h]] = "live" /\ SoldFor(on[h]) = {}
      <4>1. ASSUME NEW o \in Orders, order[o] # "unborn"
            PROVE  bought[o] \in Categories /\ home[bought[o]] # on[h]
        BY <3>1, <4>1 DEF SoldFor, EventOf, TypeOK
      <4>2. QED
        BY <2>4, <3>1, <4>1 DEF DeleteEvent, Cascade, TypeOK
    <3>2. CASE ~(eventRow[on[h]] = "live" /\ SoldFor(on[h]) = {})
      BY <2>1, <2>4, <3>2 DEF DeleteEvent
    <3>3. QED
      BY <3>1, <3>2
  <2>5. ASSUME NEW h \in Handlers, NEW c \in Categories, InsertCategory(h, c)
        PROVE  RowsAreThere'
    BY <2>5 DEF InsertCategory, TypeOK
  <2>6. ASSUME NEW h \in Handlers, DeleteCategory(h) PROVE RowsAreThere'
    BY <2>6 DEF DeleteCategory, SoldOf, TypeOK
  <2>7. ASSUME NEW h \in Handlers, NEW o \in Orders, Reserve(h, o) PROVE RowsAreThere'
    BY <2>7 DEF Reserve, TypeOK
  <2>8. ASSUME NEW o \in Orders, OrderMoves(o) PROVE RowsAreThere'
    BY <2>8 DEF OrderMoves, Active, TypeOK
  <2>9. ASSUME NEW h \in Handlers, Arrive(h) PROVE RowsAreThere'
    <3>1. PICK step, e, c, url : Start(h, step, e, c, url)
      BY <2>9 DEF Arrive, Create, Update, UpdateStatus, Remove, AddCategory,
                  RemoveCategory, Checkout
    <3>2. QED
      BY <2>1, <3>1 DEF Start
  <2>10. QED
    BY <2>1, <2>2, <2>3, <2>4, <2>5, <2>6, <2>7, <2>8, <2>9
       DEF Next, Continue, Upload, DeleteFile, UpdateEvent, SetStatus, Count,
           CountCategory, Rejects, Crash, vars
<1>3. QED
  BY <1>1, <1>2, CatalogTyped, PTL DEF Spec

-----------------------------------------------------------------------------
(* Posters *)

\* File f is named by the poster of e, or by the URL a request on e has read.
Names(e, f) ==
    \/ poster[e] # None /\ poster[e].file = f
    \/ \E h \in Handlers : on[h] = e /\ old[h] # None /\ old[h].file = f

\* No two events name one file, nor does an event name one just uploaded, and
\* every file named was uploaded once: deleting one never takes another's.
FilesApart ==
    /\ \A e \in Events : \A f \in Files :
          Names(e, f) => /\ f \in uploaded
                         /\ \A d \in Events : Names(d, f) => d = e
                         /\ \A h \in Handlers : new[h] # f
    /\ \A h \in Handlers :
          new[h] # None => /\ new[h] \in uploaded
                           /\ \A g \in Handlers : new[g] = new[h] => g = h

\* Where a request can be with what it has read and uploaded.
RequestsAreSound ==
    \A h \in Handlers :
        /\ new[h] # None => pc[h] \in {"create", "deleteOld", "update"}
        /\ pc[h] = "deleteOld" => new[h] # None
        /\ on[h] # None => eventRow[on[h]] # "unborn"
        /\ old[h] # None => on[h] # None

\* Unless two of them met, one request at a time works on a poster, and what it
\* has read of the event is still so.
OnPoster(h, e) == pc[h] \in PosterSteps /\ on[h] = e
OneAtATime ==
    \A e \in Events \ clash : \A h \in Handlers :
        OnPoster(h, e) => /\ eventRow[e] = "live" /\ old[h] = poster[e]
                          /\ \A g \in Handlers : OnPoster(g, e) => g = h

\* As long as no call fails, what was uploaded is stored until it is shown, and
\* an update without a file shows a poster that is stored.
UploadsAreStored ==
    failures = 0 =>
        \A h \in Handlers :
            /\ new[h] # None => new[h] \in bucket
            /\ \A e \in Events \ clash :
                  pc[h] = "update" /\ new[h] = None /\ on[h] = e =>
                      ~Dangling(e) \/ SoldFor(e) # {}

PosterInv ==
    /\ FilesApart /\ RequestsAreSound /\ OneAtATime
    /\ UploadsAreStored /\ PosterIsStored

\* Handler h has passed the deletion of the poster it replaces or removes.
Deleted(h) == pc[h] = "deleteRow" \/ (pc[h] = "update" /\ new[h] # None)

\* With MinIO, whose URLs name the keys of the files, such a request has deleted it.
DeletedIsGone ==
    failures = 0 =>
        /\ \A e \in Events : poster[e] # None => poster[e].style = "path"
        /\ \A h \in Handlers :
              /\ old[h] # None => old[h].style = "path"
              /\ old[h] # None /\ Deleted(h) => old[h].file \notin bucket

\* What a request that arrives has read.
LEMMA ArrivalHasRead ==
    ASSUME TypeOK, RowsAreThere, NEW h \in Handlers, Arrive(h)
    PROVE  \E step \in Steps, e \in Events \cup {None},
              c \in Categories \cup {None}, url \in Urls \cup {None} :
              /\ Start(h, step, e, c, url)
              /\ step \notin {"idle", "deleteOld", "deleteRow"}
              /\ e # None => eventRow[e] # "unborn"
              /\ url # None => e # None /\ url = poster[e]
              /\ step \in PosterSteps /\ e # None => eventRow[e] = "live" /\ url = poster[e]
              /\ step = "update" => e # None
<1> DEFINE Reads(step, e, c, url) ==
       /\ step \in Steps /\ e \in Events \cup {None}
       /\ c \in Categories \cup {None} /\ url \in Urls \cup {None}
       /\ Start(h, step, e, c, url)
       /\ step \notin {"idle", "deleteOld", "deleteRow"}
       /\ e # None => eventRow[e] # "unborn"
       /\ url # None => e # None /\ url = poster[e]
       /\ step \in PosterSteps /\ e # None => eventRow[e] = "live" /\ url = poster[e]
       /\ step = "update" => e # None
<1> SUFFICES \E step, e, c, url : Reads(step, e, c, url)
  OBVIOUS
<1> USE DEF PosterSteps, Steps
<1>1. CASE Create(h)
  BY <1>1 DEF Create
<1>2. ASSUME NEW e \in Events, Update(h, e) \/ Remove(h, e)
      PROVE  \E step : Reads(step, e, None, poster[e])
  BY <1>2 DEF Update, Remove, TypeOK
<1>3. ASSUME NEW e \in Events, UpdateStatus(h, e) \/ AddCategory(h, e)
      PROVE  \E step : Reads(step, e, None, None)
  BY <1>3 DEF UpdateStatus, AddCategory
<1>4. ASSUME NEW c \in Categories, RemoveCategory(h, c) \/ Checkout(h, c)
      PROVE  \E step : Reads(step, home[c], c, None)
  <2>1. home[c] \in Events /\ eventRow[home[c]] = "live"
    BY <1>4 DEF RemoveCategory, Checkout, TypeOK, RowsAreThere
  <2> QED BY <1>4, <2>1 DEF RemoveCategory, Checkout
<1> HIDE DEF Reads
<1> QED BY <1>1, <1>2, <1>3, <1>4 DEF Arrive

\* The row of an event that was created does not become free again.
LEMMA RowsAreUsedOnce ==
    ASSUME TypeOK, [Next]_vars, NEW e \in Events, eventRow[e] # "unborn"
    PROVE  eventRow'[e] # "unborn"
<1>1. ASSUME NEW h \in Handlers, NEW d \in Events, InsertEvent(h, d) PROVE eventRow'[e] # "unborn"
  BY <1>1 DEF InsertEvent, TypeOK
<1>2. ASSUME NEW h \in Handlers, DeleteEvent(h) PROVE eventRow'[e] # "unborn"
  BY <1>2 DEF DeleteEvent, TypeOK
<1>3. ASSUME NEW h \in Handlers, Arrive(h) PROVE UNCHANGED eventRow
  <2>1. PICK step, d, c, url : Start(h, step, d, c, url)
    BY <1>3 DEF Arrive, Create, Update, UpdateStatus, Remove, AddCategory,
                RemoveCategory, Checkout
  <2> QED BY <2>1 DEF Start, events
<1> QED BY <1>1, <1>2, <1>3
        DEF Next, Continue, Upload, DeleteFile, UpdateEvent, SetStatus, Cancel, Count,
            InsertCategory, CountCategory, DeleteCategory, Reserve, OrderMoves, Rejects,
            Crash, vars, events

\* A step that names no file anew keeps the files apart.
LEMMA NoNewNames ==
    ASSUME FilesApart, uploaded \subseteq uploaded',
           \A e \in Events : \A f \in Files : Names(e, f)' => Names(e, f),
           \A h \in Handlers : new'[h] \in {new[h], None}
    PROVE  FilesApart'
BY DEF FilesApart

\* A request that ends, and those that do, take their names along.
LEMMA EndsNameNothing ==
    ASSUME UNCHANGED poster,
           \A h \in Handlers : \/ on'[h] = on[h] /\ old'[h] = old[h]
                               \/ old'[h] = None
    PROVE  \A e \in Events : \A f \in Files : Names(e, f)' => Names(e, f)
BY DEF Names

LEMMA FilesStayApart ==
    ASSUME TypeOK, TypeOK', RowsAreThere, RequestsAreSound, FilesApart, [Next]_vars
    PROVE  FilesApart'
<1> USE DEF events, categories, sales, storage, procs
<1>1. ASSUME NEW h \in Handlers, Arrive(h) PROVE FilesApart'
  <2>1. PICK step \in Steps, d \in Events \cup {None},
              c \in Categories \cup {None}, url \in Urls \cup {None} :
           Start(h, step, d, c, url) /\ (url # None => d # None /\ url = poster[d])
    BY <1>1, ArrivalHasRead
  <2>2. ASSUME NEW e \in Events, NEW f \in Files, Names(e, f)' PROVE Names(e, f)
    BY <2>1, <2>2 DEF Start, Names, TypeOK
  <2> QED BY <2>1, <2>2, NoNewNames DEF Start
<1>2. ASSUME NEW h \in Handlers, NEW f \in Files, Upload(h, f) PROVE FilesApart'
  <2>1. ASSUME NEW e \in Events, NEW k \in Files PROVE Names(e, k)' <=> Names(e, k)
    BY <1>2 DEF Upload, Names
  <2>2. /\ uploaded' = uploaded \cup {f} /\ f \notin uploaded /\ None # f
        /\ new' = [new EXCEPT ![h] = f]
    BY <1>2 DEF Upload
  <2> QED BY <2>1, <2>2 DEF FilesApart, TypeOK
<1>3. ASSUME NEW h \in Handlers, NEW d \in Events, InsertEvent(h, d) PROVE FilesApart'
  <2>1. /\ uploaded' = uploaded /\ new' = [new EXCEPT ![h] = None]
        /\ old' = [old EXCEPT ![h] = None] /\ on' = [on EXCEPT ![h] = None]
    BY <1>3 DEF InsertEvent, Return
  <2>2. ASSUME NEW e \in Events, NEW f \in Files, Names(e, f)'
        PROVE  Names(e, f) \/ (e = d /\ new[h] = f)
    BY <1>3, <2>1, <2>2 DEF InsertEvent, Names, UrlOf, TypeOK
  <2> QED BY <2>1, <2>2 DEF FilesApart, TypeOK
<1>4. ASSUME NEW h \in Handlers, UpdateEvent(h) PROVE FilesApart'
  <2>1. /\ uploaded' = uploaded /\ new' = [new EXCEPT ![h] = None] /\ on[h] \in Events
        /\ old' = [old EXCEPT ![h] = None] /\ on' = [on EXCEPT ![h] = None]
    BY <1>4 DEF UpdateEvent, Return, TypeOK
  <2>2. ASSUME NEW e \in Events, NEW f \in Files, Names(e, f)'
        PROVE  Names(e, f) \/ (e = on[h] /\ new[h] = f)
    BY <1>4, <2>1, <2>2 DEF UpdateEvent, UrlAfter, Names, UrlOf, TypeOK
  <2> QED BY <2>1, <2>2 DEF FilesApart, TypeOK
<1>5. ASSUME UNCHANGED <<poster, uploaded>>,
             \A h \in Handlers : \/ /\ on'[h] = on[h] /\ old'[h] = old[h] /\ new'[h] = new[h]
                                 \/ old'[h] = None /\ new'[h] = None
      PROVE  FilesApart'
  BY <1>5, EndsNameNothing, NoNewNames
<1>6. ASSUME NEW h \in Handlers, Return(h), UNCHANGED <<poster, uploaded>> PROVE FilesApart'
  BY <1>5, <1>6 DEF Return, TypeOK
<1>7. ASSUME UNCHANGED <<poster, uploaded, on, old, new>> PROVE FilesApart'
  BY <1>5, <1>7
<1>8. CASE Crash
  BY <1>5, <1>8 DEF Crash
<1>9. ASSUME NEW h \in Handlers,
             DeleteFile(h) \/ Count(h) \/ DeleteEvent(h) \/ CountCategory(h)
             \/ DeleteCategory(h) \/ Cancel(h) \/ Rejects(h)
      PROVE  FilesApart'
  BY <1>6, <1>7, <1>9 DEF DeleteFile, Count, DeleteEvent, CountCategory, DeleteCategory,
                          Cancel, Rejects, Await
<1>10. ASSUME NEW h \in Handlers,
             \/ \E s \in {"DRAFT", "PUBLISHED"} : SetStatus(h, s)
             \/ \E c \in Categories : InsertCategory(h, c)
             \/ \E o \in Orders : Reserve(h, o)
      PROVE  FilesApart'
  BY <1>6, <1>10 DEF SetStatus, InsertCategory, Reserve
<1>11. CASE (\E o \in Orders : OrderMoves(o)) \/ UNCHANGED vars
  BY <1>7, <1>11 DEF OrderMoves, vars
<1> QED BY <1>1, <1>2, <1>3, <1>4, <1>8, <1>9, <1>10, <1>11 DEF Next, Continue

LEMMA RequestsStaySound ==
    ASSUME TypeOK, RowsAreThere, RequestsAreSound, [Next]_vars
    PROVE  RequestsAreSound'
<1> USE DEF events, categories, sales, storage, procs
<1>1. ASSUME NEW h \in Handlers, Arrive(h) PROVE RequestsAreSound'
  <2>1. PICK step \in Steps, d \in Events \cup {None},
              c \in Categories \cup {None}, url \in Urls \cup {None} :
           /\ Start(h, step, d, c, url) /\ step # "deleteOld"
           /\ d # None => eventRow[d] # "unborn"
           /\ url # None => d # None
    BY <1>1, ArrivalHasRead
  <2> QED BY <2>1 DEF Start, RequestsAreSound, TypeOK
<1>2. ASSUME NEW h \in Handlers, NEW f \in Files, Upload(h, f) PROVE RequestsAreSound'
  BY <1>2 DEF Upload, RequestsAreSound, TypeOK
<1>3. ASSUME NEW h \in Handlers, DeleteFile(h) PROVE RequestsAreSound'
  BY <1>3 DEF DeleteFile, Await, RequestsAreSound, TypeOK
<1>4. ASSUME NEW h \in Handlers, Return(h) PROVE RequestsAreSound'
  BY <1>4, RowsAreUsedOnce DEF Return, RequestsAreSound, TypeOK
<1>5. ASSUME NEW h \in Handlers, Count(h) \/ CountCategory(h) PROVE RequestsAreSound'
  BY <1>4, <1>5 DEF Count, CountCategory, Await, RequestsAreSound, TypeOK
<1>6. CASE Crash
  BY <1>6 DEF Crash, RequestsAreSound
<1>7. CASE (\E o \in Orders : OrderMoves(o)) \/ UNCHANGED vars
  BY <1>7 DEF OrderMoves, vars, RequestsAreSound
<1> QED BY <1>1, <1>2, <1>3, <1>4, <1>5, <1>6, <1>7
        DEF Next, Continue, InsertEvent, UpdateEvent, SetStatus, Cancel, DeleteEvent,
            InsertCategory, DeleteCategory, Reserve, Rejects

LEMMA StaysOneAtATime ==
    ASSUME TypeOK, RowsAreThere, RequestsAreSound, OneAtATime, [Next]_vars
    PROVE  OneAtATime'
<1> USE DEF events, categories, sales, storage, procs
<1>1. ASSUME NEW h \in Handlers, Arrive(h) PROVE OneAtATime'
  <2>1. PICK step \in Steps, d \in Events \cup {None},
              c \in Categories \cup {None}, url \in Urls \cup {None} :
           /\ Start(h, step, d, c, url)
           /\ step \in PosterSteps /\ d # None => eventRow[d] = "live" /\ url = poster[d]
    BY <1>1, ArrivalHasRead
  <2>2. CASE step \in PosterSteps
    BY <2>1, <2>2 DEF Start, OneAtATime, OnPoster, TypeOK
  <2>3. CASE step \notin PosterSteps
    BY <2>1, <2>3 DEF Start, OneAtATime, OnPoster, TypeOK
  <2> QED BY <2>2, <2>3
<1>2. ASSUME NEW g \in Handlers, NEW f \in Files, Upload(g, f) PROVE OneAtATime'
  BY <1>2 DEF Upload, OneAtATime, OnPoster, PosterSteps, TypeOK
<1>3. ASSUME NEW g \in Handlers, DeleteFile(g) \/ Count(g) \/ CountCategory(g) PROVE OneAtATime'
  BY <1>3 DEF DeleteFile, Count, CountCategory, Await, Return, OneAtATime, OnPoster,
              PosterSteps, TypeOK
<1>4. ASSUME NEW g \in Handlers, Return(g), UNCHANGED <<eventRow, poster, clash>>
      PROVE  OneAtATime'
  BY <1>4 DEF Return, OneAtATime, OnPoster, PosterSteps, TypeOK
<1>5. ASSUME NEW g \in Handlers, NEW d \in Events, InsertEvent(g, d) PROVE OneAtATime'
  BY <1>5 DEF InsertEvent, Return, OneAtATime, OnPoster, PosterSteps, TypeOK
<1>6. ASSUME NEW g \in Handlers, UpdateEvent(g) \/ DeleteEvent(g) PROVE OneAtATime'
  <2>1. /\ OnPoster(g, on[g]) /\ on[g] \in Events /\ clash' = clash /\ Return(g)
        /\ \A e \in Events : e # on[g] => eventRow'[e] = eventRow[e] /\ poster'[e] = poster[e]
    BY <1>6 DEF UpdateEvent, DeleteEvent, OnPoster, PosterSteps, TypeOK
  <2>2. \A e \in Events, h \in Handlers : OnPoster(h, e)' =>
           h # g /\ OnPoster(h, e) /\ old'[h] = old[h]
    BY <2>1 DEF Return, OnPoster, PosterSteps, TypeOK
  <2> QED BY <2>1, <2>2 DEF OneAtATime
<1>7. CASE Crash
  BY <1>7 DEF Crash, OneAtATime, OnPoster, PosterSteps
<1>8. CASE (\E o \in Orders : OrderMoves(o)) \/ UNCHANGED vars
  BY <1>8 DEF OrderMoves, vars, OneAtATime, OnPoster
<1> QED BY <1>1, <1>2, <1>3, <1>4, <1>5, <1>6, <1>7, <1>8
        DEF Next, Continue, SetStatus, Cancel, InsertCategory, DeleteCategory, Reserve, Rejects

\* An event that has orders keeps them.
LEMMA SoldStays ==
    ASSUME TypeOK, RowsAreThere, [Next]_vars, NEW e \in Events, SoldFor(e) # {}
    PROVE  SoldFor(e)' # {}
<1> USE DEF events, categories, sales, storage, procs
<1>1. PICK o \in Orders : order[o] # "unborn" /\ home[bought[o]] = e
  BY DEF SoldFor, EventOf
<1>2. /\ bought[o] \in Categories /\ categoryRow[bought[o]] = "live"
  BY <1>1 DEF TypeOK, RowsAreThere
<1>3. SUFFICES order'[o] # "unborn" /\ bought'[o] = bought[o] /\ home'[bought[o]] = home[bought[o]]
  BY <1>1 DEF SoldFor, EventOf
<1>4. ASSUME NEW h \in Handlers, NEW c \in Categories, InsertCategory(h, c)
      PROVE  UNCHANGED sales /\ home'[bought[o]] = home[bought[o]]
  BY <1>2, <1>4 DEF InsertCategory, TypeOK
<1>5. ASSUME NEW h \in Handlers, NEW p \in Orders, Reserve(h, p)
      PROVE  order'[o] = order[o] /\ bought'[o] = bought[o] /\ home' = home
  BY <1>1, <1>5 DEF Reserve, TypeOK
<1>6. ASSUME NEW h \in Handlers, Cancel(h)
      PROVE  order'[o] # "unborn" /\ UNCHANGED <<bought, home>>
  BY <1>1, <1>6 DEF Cancel
<1>7. ASSUME NEW p \in Orders, OrderMoves(p)
      PROVE  order'[o] # "unborn" /\ UNCHANGED <<bought, home>>
  BY <1>1, <1>7 DEF OrderMoves, TypeOK
<1>8. ASSUME NEW h \in Handlers, Arrive(h) PROVE UNCHANGED <<order, bought, home>>
  <2>1. PICK step, d, c, url : Start(h, step, d, c, url)
    BY <1>8, ArrivalHasRead
  <2> QED BY <2>1 DEF Start
<1> QED BY <1>1, <1>4, <1>5, <1>6, <1>7, <1>8
        DEF Next, Continue, Upload, InsertEvent, DeleteFile, UpdateEvent, SetStatus, Count,
            DeleteEvent, CountCategory, DeleteCategory, Rejects, Crash, vars

\* A file leaves the bucket when a request deletes the poster it has read.
LEMMA FilesLeave ==
    ASSUME TypeOK, RowsAreThere, FilesApart, [Next]_vars, NEW f \in bucket, f \notin bucket'
    PROVE  \E h \in Handlers : DeleteFile(h) /\ on[h] \in Events /\ Names(on[h], f)
<1> USE DEF events, categories, sales, storage, procs
<1>1. PICK h \in Handlers : DeleteFile(h)
  <2>1. ASSUME NEW h \in Handlers, NEW k \in Files, Upload(h, k) PROVE FALSE
    BY <2>1 DEF Upload
  <2>2. ASSUME NEW h \in Handlers, Arrive(h) PROVE FALSE
    <3>1. PICK step, d, c, url : Start(h, step, d, c, url)
      BY <2>2, ArrivalHasRead
    <3> QED BY <3>1 DEF Start
  <2> QED BY <2>1, <2>2
          DEF Next, Continue, InsertEvent, UpdateEvent, SetStatus, Cancel, Count, DeleteEvent,
              InsertCategory, CountCategory, DeleteCategory, Reserve, OrderMoves, Rejects,
              Crash, vars
<1>2. on[h] \in Events /\ old[h] \in Urls /\ f = KeyOf(old[h])
  BY <1>1 DEF DeleteFile, TypeOK
<1>3. f \in Files /\ f \notin Urls
  BY DEF TypeOK, Urls
<1>4. f = old[h].file /\ old[h] # None
  BY <1>2, <1>3 DEF KeyOf
<1> QED BY <1>1, <1>2, <1>4 DEF Names

\* What a step does to a poster that is stored, as long as no call fails: only the
\* deletion that precedes the write leaves it without its file.
LEMMA DanglingComes ==
    ASSUME TypeOK, TypeOK', RowsAreThere, FilesApart, OneAtATime, UploadsAreStored, [Next]_vars,
           failures = 0, NEW e \in Events, e \notin clash, ~Dangling(e), Dangling(e)'
    PROVE  \E h \in Handlers : DeleteFile(h) /\ on[h] = e
<1> USE DEF events, categories, sales, storage, procs
<1>1. ASSUME eventRow'[e] = eventRow[e], poster'[e] = poster[e]
      PROVE  \E h \in Handlers : DeleteFile(h) /\ on[h] = e
  <2>1. poster[e].file \in bucket /\ poster[e].file \notin bucket' /\ poster[e] # None
    BY <1>1 DEF Dangling
  <2>2. Names(e, poster[e].file) /\ poster[e].file \in Files
    BY <2>1 DEF Names, TypeOK
  <2> QED BY <2>1, <2>2, FilesLeave DEF FilesApart
<1>2. ASSUME NEW h \in Handlers, NEW d \in Events, InsertEvent(h, d), d = e PROVE FALSE
  BY <1>2 DEF InsertEvent, Dangling, UploadsAreStored, UrlOf, TypeOK
<1>3. ASSUME NEW h \in Handlers, UpdateEvent(h), on[h] = e, poster'[e] # poster[e] PROVE FALSE
  <2>1. OnPoster(h, e)
    BY <1>3 DEF UpdateEvent, OnPoster, PosterSteps
  <2>2. poster'[e] = UrlOf(new[h]) /\ new[h] # None
    BY <1>3, <2>1 DEF UpdateEvent, UrlAfter, OneAtATime, TypeOK
  <2> QED BY <1>3, <2>2 DEF UpdateEvent, Dangling, UploadsAreStored, UrlOf
<1>4. ASSUME NEW h \in Handlers, Arrive(h) PROVE UNCHANGED <<eventRow, poster>>
  <2>1. PICK step, d, c, url : Start(h, step, d, c, url)
    BY <1>4, ArrivalHasRead
  <2> QED BY <2>1 DEF Start
<1>5. ASSUME NEW h \in Handlers, NEW d \in Events, InsertEvent(h, d), d # e
      PROVE  eventRow'[e] = eventRow[e] /\ poster'[e] = poster[e]
  BY <1>5 DEF InsertEvent, TypeOK
<1>6. ASSUME NEW h \in Handlers, UpdateEvent(h)
      PROVE  eventRow' = eventRow /\ (on[h] # e => poster'[e] = poster[e])
  BY <1>6 DEF UpdateEvent, TypeOK
<1>7. ASSUME NEW h \in Handlers, DeleteEvent(h)
      PROVE  eventRow'[e] = eventRow[e] /\ poster'[e] = poster[e]
  BY <1>7 DEF DeleteEvent, Dangling, TypeOK
<1> QED BY <1>1, <1>2, <1>3, <1>4, <1>5, <1>6, <1>7
        DEF Next, Continue, Upload, DeleteFile, SetStatus, Cancel, Count, InsertCategory,
            CountCategory, DeleteCategory, Reserve, OrderMoves, Rejects, Crash, vars

\* Failures and meetings are never undone.
LEMMA HistoryGrows ==
    ASSUME TypeOK, RowsAreThere, [Next]_vars
    PROVE  clash \subseteq clash' /\ (failures' = 0 => failures = 0)
<1> USE DEF events, categories, sales, storage, procs
<1>1. ASSUME NEW h \in Handlers, Arrive(h)
      PROVE  clash \subseteq clash' /\ failures' = failures
  <2>1. PICK step, d, c, url : Start(h, step, d, c, url)
    BY <1>1, ArrivalHasRead
  <2> QED BY <2>1 DEF Start
<1>2. ASSUME NEW h \in Handlers, DeleteFile(h) \/ Rejects(h)
      PROVE  clash' = clash /\ (failures' = 0 => failures = 0)
  BY <1>2 DEF DeleteFile, Rejects, TypeOK
<1>3. ASSUME Crash
      PROVE  clash' = clash /\ (failures' = 0 => failures = 0)
  BY <1>3 DEF Crash, TypeOK
<1> QED BY <1>1, <1>2, <1>3
        DEF Next, Continue, Upload, InsertEvent, UpdateEvent, SetStatus, Cancel, Count, DeleteEvent,
            InsertCategory, CountCategory, DeleteCategory, Reserve, OrderMoves, vars

\* A handler that goes on leaves the requests of the others alone.
LEMMA OthersStay ==
    ASSUME TypeOK, NEW g \in Handlers, Continue(g), NEW h \in Handlers, g # h
    PROVE  pc'[h] = pc[h] /\ on'[h] = on[h] /\ old'[h] = old[h] /\ new'[h] = new[h]
<1> DEFINE Apart == pc'[h] = pc[h] /\ on'[h] = on[h] /\ old'[h] = old[h] /\ new'[h] = new[h]
<1>1. \A step : Await(g, step) => Apart
  BY DEF Await, TypeOK
<1>2. Return(g) => Apart
  BY DEF Return, TypeOK
<1>3. ASSUME NEW f \in Files, Upload(g, f) PROVE Apart
  BY <1>3 DEF Upload, TypeOK, procs
<1> HIDE DEF Apart
<1>4. ASSUME \/ DeleteFile(g) \/ Count(g) \/ CountCategory(g)
             \/ \E e \in Events : InsertEvent(g, e)
      PROVE  Apart
  BY <1>1, <1>2, <1>4 DEF DeleteFile, Count, CountCategory, InsertEvent, Await
<1>5. ASSUME \/ UpdateEvent(g) \/ Cancel(g) \/ DeleteEvent(g) \/ DeleteCategory(g)
             \/ \E s \in {"DRAFT", "PUBLISHED"} : SetStatus(g, s)
             \/ \E c \in Categories : InsertCategory(g, c)
             \/ \E o \in Orders : Reserve(g, o)
      PROVE  Apart
  BY <1>2, <1>5 DEF UpdateEvent, Cancel, DeleteEvent, DeleteCategory, SetStatus,
                    InsertCategory, Reserve
<1> QED BY <1>3, <1>4, <1>5 DEF Continue, Apart

\* A handler that goes on keeps the URL it has read, or returns.
LEMMA OldStays ==
    ASSUME TypeOK, NEW h \in Handlers, Continue(h)
    PROVE  old'[h] \in {old[h], None}
<1> DEFINE Kept == old'[h] \in {old[h], None}
<1>1. \A step : Await(h, step) => Kept
  BY DEF Await
<1>2. Return(h) => Kept
  BY DEF Return, TypeOK
<1>3. ASSUME NEW f \in Files, Upload(h, f) PROVE Kept
  BY <1>3 DEF Upload
<1> HIDE DEF Kept
<1>4. ASSUME \/ DeleteFile(h) \/ Count(h) \/ CountCategory(h)
             \/ \E e \in Events : InsertEvent(h, e)
      PROVE  Kept
  BY <1>1, <1>2, <1>4 DEF DeleteFile, Count, CountCategory, InsertEvent
<1>5. ASSUME \/ UpdateEvent(h) \/ Cancel(h) \/ DeleteEvent(h) \/ DeleteCategory(h)
             \/ \E s \in {"DRAFT", "PUBLISHED"} : SetStatus(h, s)
             \/ \E c \in Categories : InsertCategory(h, c)
             \/ \E o \in Orders : Reserve(h, o)
      PROVE  Kept
  BY <1>2, <1>5 DEF UpdateEvent, Cancel, DeleteEvent, DeleteCategory, SetStatus,
                    InsertCategory, Reserve
<1> QED BY <1>3, <1>4, <1>5 DEF Continue, Kept

\* Files come into the bucket by an upload, and only a deletion takes them out.
LEMMA BucketWrites ==
    ASSUME TypeOK, RowsAreThere, [Next]_vars
    PROVE  \/ UNCHANGED bucket
           \/ \E h \in Handlers : DeleteFile(h)
           \/ \E h \in Handlers, f \in Files : Upload(h, f)
<1>1. ASSUME NEW h \in Handlers, Arrive(h) PROVE UNCHANGED bucket
  <2>1. PICK step, d, c, url : Start(h, step, d, c, url)
    BY <1>1, ArrivalHasRead
  <2> QED BY <2>1 DEF Start, storage
<1>2. ASSUME NEW h \in Handlers,
             \/ UpdateEvent(h) \/ Cancel(h) \/ Count(h) \/ DeleteEvent(h)
             \/ CountCategory(h) \/ DeleteCategory(h) \/ Rejects(h)
      PROVE  UNCHANGED bucket
  BY <1>2 DEF UpdateEvent, Cancel, Count, DeleteEvent, CountCategory, DeleteCategory, Rejects,
              storage
<1>3. ASSUME NEW h \in Handlers,
             \/ \E e \in Events : InsertEvent(h, e)
             \/ \E s \in {"DRAFT", "PUBLISHED"} : SetStatus(h, s)
             \/ \E c \in Categories : InsertCategory(h, c)
             \/ \E o \in Orders : Reserve(h, o)
      PROVE  UNCHANGED bucket
  BY <1>3 DEF InsertEvent, SetStatus, InsertCategory, Reserve, storage
<1>4. ASSUME Crash \/ UNCHANGED vars \/ \E o \in Orders : OrderMoves(o) PROVE UNCHANGED bucket
  BY <1>4 DEF Crash, vars, OrderMoves, storage
<1> QED BY <1>1, <1>2, <1>3, <1>4 DEF Next, Continue

\* How a request comes to hold a file, or to be about to write.
LEMMA StepsOfOne ==
    ASSUME TypeOK, RowsAreThere, RequestsAreSound, [Next]_vars, failures' = 0, NEW h \in Handlers
    PROVE  \/ pc'[h] = pc[h] /\ on'[h] = on[h] /\ old'[h] = old[h] /\ new'[h] = new[h]
           \/ pc'[h] = "idle" /\ new'[h] = None /\ old'[h] = None
           \/ Arrive(h) /\ new'[h] = None
           \/ \E f \in Files : Upload(h, f) /\ new'[h] = f
           \/ DeleteFile(h)
           \/ pc[h] = "count" /\ pc'[h] \in {"deletePoster", "deleteRow"} /\ Count(h)
              /\ new'[h] = None
           \/ pc'[h] = "deleteCategory" /\ new'[h] = None
<1> USE DEF events, categories, sales, storage, procs
<1>1. ASSUME NEW g \in Handlers, Arrive(g)
      PROVE  IF g = h THEN new'[h] = None
             ELSE pc'[h] = pc[h] /\ on'[h] = on[h] /\ old'[h] = old[h] /\ new'[h] = new[h]
  <2>1. PICK step, d, c, url : Start(g, step, d, c, url)
    BY <1>1, ArrivalHasRead
  <2> QED BY <2>1 DEF Start, RequestsAreSound, TypeOK
<1>2. ASSUME NEW g \in Handlers, Return(g)
      PROVE  \/ pc'[h] = pc[h] /\ on'[h] = on[h] /\ old'[h] = old[h] /\ new'[h] = new[h]
             \/ pc'[h] = "idle" /\ new'[h] = None /\ old'[h] = None
  BY <1>2 DEF Return, TypeOK
<1>3. ASSUME NEW g \in Handlers, NEW f \in Files, Upload(g, f)
      PROVE  IF g = h THEN new'[h] = f
             ELSE pc'[h] = pc[h] /\ on'[h] = on[h] /\ old'[h] = old[h] /\ new'[h] = new[h]
  BY <1>3 DEF Upload, TypeOK
<1>4. ASSUME NEW g \in Handlers, DeleteFile(g), g # h
      PROVE  pc'[h] = pc[h] /\ on'[h] = on[h] /\ old'[h] = old[h] /\ new'[h] = new[h]
  BY <1>4 DEF DeleteFile, Await, TypeOK
<1>5. ASSUME NEW g \in Handlers, Count(g), ~Return(g)
      PROVE  IF g = h THEN pc[h] = "count" /\ pc'[h] \in {"deletePoster", "deleteRow"} /\ new'[h] = None
             ELSE pc'[h] = pc[h] /\ on'[h] = on[h] /\ old'[h] = old[h] /\ new'[h] = new[h]
  BY <1>5 DEF Count, Await, RequestsAreSound, TypeOK
<1>6. ASSUME NEW g \in Handlers, CountCategory(g), ~Return(g)
      PROVE  IF g = h THEN pc'[h] = "deleteCategory" /\ new'[h] = None
             ELSE pc'[h] = pc[h] /\ on'[h] = on[h] /\ old'[h] = old[h] /\ new'[h] = new[h]
  BY <1>6 DEF CountCategory, Await, RequestsAreSound, TypeOK
<1>7. ~Crash
  BY DEF Crash, TypeOK
<1>8. CASE (\E o \in Orders : OrderMoves(o)) \/ UNCHANGED vars
  BY <1>8 DEF OrderMoves, vars
<1> QED BY <1>1, <1>2, <1>3, <1>4, <1>5, <1>6, <1>7, <1>8
        DEF Next, Continue, InsertEvent, UpdateEvent, SetStatus, Cancel, DeleteEvent,
            InsertCategory, DeleteCategory, Reserve, Rejects

\* A request that arrives finds nobody on its poster, or they meet.
LEMMA ArrivesAlone ==
    ASSUME TypeOK, RowsAreThere, NEW h \in Handlers, Arrive(h), NEW e \in Events \ clash',
           pc'[h] \in PosterSteps, on'[h] = e
    PROVE  e \notin clash /\ \A g \in Handlers : ~OnPoster(g, e)
<1>1. PICK step, d, c, url : Start(h, step, d, c, url)
  BY ArrivalHasRead
<1>2. step \in PosterSteps /\ d = e
  BY <1>1 DEF Start, TypeOK
<1> QED BY <1>1, <1>2 DEF Start, OnPoster

LEMMA UploadsStayStored ==
    ASSUME TypeOK, TypeOK', RowsAreThere, PosterInv, [Next]_vars
    PROVE  UploadsAreStored'
<1> USE DEF PosterInv
<1> SUFFICES ASSUME failures' = 0 PROVE UploadsAreStored'
  BY DEF UploadsAreStored
<1>1. clash \subseteq clash' /\ failures = 0
  BY HistoryGrows
<1>2. ASSUME NEW h \in Handlers, new'[h] # None PROVE new'[h] \in bucket'
  <2>1. CASE new'[h] = new[h]
    <3>1. new[h] \in bucket
      BY <1>1, <1>2, <2>1 DEF UploadsAreStored
    <3>2. ASSUME new[h] \notin bucket' PROVE FALSE
      BY <3>1, <3>2, FilesLeave DEF FilesApart, TypeOK
    <3> QED BY <2>1, <3>2
  <2>2. ASSUME NEW f \in Files, Upload(h, f), new'[h] = f PROVE new'[h] \in bucket'
    BY <2>2 DEF Upload
  <2>3. DeleteFile(h) => new'[h] = new[h]
    BY DEF DeleteFile, Await
  <2> QED BY <1>2, <2>1, <2>2, <2>3, StepsOfOne
<1>3. ASSUME NEW e \in Events \ clash', NEW h \in Handlers,
             pc'[h] = "update", new'[h] = None, on'[h] = e
      PROVE  ~Dangling(e)' \/ SoldFor(e)' # {}
  <2>1. SUFFICES ASSUME Dangling(e)', SoldFor(e) = {} PROVE FALSE
    BY SoldStays
  <2>2. CASE Arrive(h)
    <3>1. \A g \in Handlers : ~OnPoster(g, e)
      BY <1>3, <2>2, ArrivesAlone DEF PosterSteps
    <3>2. ~Dangling(e)
      BY <1>1, <1>3, <2>1, <3>1 DEF PosterIsStored, Replacing, OnPoster, PosterSteps
    <3>3. PICK g \in Handlers : DeleteFile(g) /\ on[g] = e
      BY <1>1, <1>3, <2>1, <3>2, DanglingComes
    <3> QED BY <3>1, <3>3 DEF DeleteFile, OnPoster, PosterSteps
  <2>3. CASE pc[h] = "update" /\ on[h] = e /\ new[h] = None
    <3>1. OnPoster(h, e) /\ e \in Events \ clash
      BY <1>1, <1>3, <2>3 DEF OnPoster, PosterSteps
    <3>2. ~Dangling(e)
      BY <1>1, <1>3, <2>1, <2>3, <3>1 DEF UploadsAreStored
    <3>3. PICK g \in Handlers : DeleteFile(g) /\ on[g] = e
      BY <1>1, <1>3, <2>1, <3>2, DanglingComes
    <3>4. OnPoster(g, e) /\ g # h
      BY <2>3, <3>3 DEF DeleteFile, OnPoster, PosterSteps
    <3> QED BY <3>1, <3>4 DEF OneAtATime
  <2>4. ~DeleteFile(h) /\ \A f \in Files : ~(Upload(h, f) /\ new'[h] = f)
    BY <1>3 DEF DeleteFile, Await, RequestsAreSound, TypeOK
  <2> QED BY <1>3, <2>2, <2>3, <2>4, StepsOfOne
<1> QED BY <1>2, <1>3 DEF UploadsAreStored

LEMMA PosterStaysStored ==
    ASSUME TypeOK, TypeOK', RowsAreThere, PosterInv, [Next]_vars
    PROVE  PosterIsStored'
<1> USE DEF PosterInv
<1> SUFFICES ASSUME failures' = 0, NEW e \in Events \ clash', Dangling(e)', SoldFor(e)' = {}
             PROVE  Replacing(e)'
  BY DEF PosterIsStored
<1>1. e \in Events \ clash /\ failures = 0 /\ SoldFor(e) = {}
  BY HistoryGrows, SoldStays
<1>2. CASE ~Dangling(e)
  <2>1. PICK h \in Handlers : DeleteFile(h) /\ on[h] = e
    BY <1>1, <1>2, DanglingComes
  <2> QED BY <2>1 DEF DeleteFile, Await, Replacing, TypeOK
<1>3. CASE Dangling(e)
  <2>1. PICK h \in Handlers : on[h] = e /\ pc[h] \in {"update", "deleteRow"}
    BY <1>1, <1>3 DEF PosterIsStored, Replacing
  <2>2. ASSUME UpdateEvent(h) PROVE FALSE
    <3>1. new[h] # None
      BY <1>1, <1>3, <2>1, <2>2 DEF UploadsAreStored, UpdateEvent
    <3>2. UrlOf(new[h]) \in Urls /\ UrlOf(new[h]).file = new[h] /\ new[h] \in bucket
      BY <1>1, <3>1 DEF UploadsAreStored, UrlOf, Urls, TypeOK
    <3>3. poster'[e] = UrlOf(new[h]) /\ bucket' = bucket
      BY <1>3, <2>1, <2>2, <3>1, <3>2 DEF UpdateEvent, UrlAfter, Dangling, TypeOK, storage
    <3> QED BY <3>2, <3>3 DEF Dangling
  <2>3. ASSUME DeleteEvent(h) PROVE FALSE
    BY <1>1, <1>3, <2>1, <2>3 DEF DeleteEvent, Dangling, TypeOK
  <2>4. UpdateEvent(h) \/ DeleteEvent(h) \/ (pc'[h] = pc[h] /\ on'[h] = on[h])
    <3> USE DEF events, categories, sales, storage, procs
    <3>1. ASSUME NEW g \in Handlers, Arrive(g) PROVE pc'[h] = pc[h] /\ on'[h] = on[h]
      <4>1. PICK step, d, c, url : Start(g, step, d, c, url)
        BY <3>1, ArrivalHasRead
      <4> QED BY <2>1, <4>1 DEF Start, TypeOK
    <3>2. ASSUME NEW g \in Handlers, Continue(g), g # h PROVE pc'[h] = pc[h] /\ on'[h] = on[h]
      BY <3>2, OthersStay
    <3>3. ASSUME Continue(h) PROVE UpdateEvent(h) \/ DeleteEvent(h)
      BY <2>1, <3>3 DEF Continue, Upload, InsertEvent, DeleteFile, SetStatus, Cancel,
                        Count, InsertCategory, CountCategory, DeleteCategory, Reserve
    <3>4. ASSUME NEW g \in Handlers, Rejects(g) \/ Crash PROVE FALSE
      BY <3>4 DEF Rejects, Crash, TypeOK
    <3>5. CASE (\E o \in Orders : OrderMoves(o)) \/ UNCHANGED vars
      BY <3>5 DEF OrderMoves, vars
    <3> QED BY <3>1, <3>2, <3>3, <3>4, <3>5 DEF Next
  <2> QED BY <2>1, <2>2, <2>3, <2>4 DEF Replacing
<1> QED BY <1>2, <1>3

LEMMA PosterInvHolds == Spec => []PosterInv
<1>1. Init => PosterInv
  BY DEF Init, PosterInv, FilesApart, Names, RequestsAreSound, OneAtATime, OnPoster, PosterSteps,
         UploadsAreStored, PosterIsStored, Dangling
<1>2. TypeOK /\ TypeOK' /\ RowsAreThere /\ PosterInv /\ [Next]_vars => PosterInv'
  BY FilesStayApart, RequestsStaySound, StaysOneAtATime, UploadsStayStored, PosterStaysStored
     DEF PosterInv
<1> QED BY <1>1, <1>2, CatalogTyped, RowsStayThere, PTL DEF Spec

\* An event shows a poster that is stored, unless a request is replacing it, a
\* call has failed, two requests met on it, or it has orders.
THEOREM PostersAreStored == Spec => []PosterIsStored
BY PosterInvHolds, PTL DEF PosterInv

LEMMA DeletedStaysGone ==
    ASSUME Endpoint, TypeOK, TypeOK', RowsAreThere, PosterInv, DeletedIsGone, [Next]_vars
    PROVE  DeletedIsGone'
<1> USE DEF PosterInv
<1> SUFFICES ASSUME failures' = 0 PROVE DeletedIsGone'
  BY DEF DeletedIsGone
<1>1. failures = 0
  BY HistoryGrows
<1>2. ASSUME NEW h \in Handlers, Arrive(h)
      PROVE  /\ UNCHANGED poster
             /\ old' = [old EXCEPT ![h] = old'[h]]
             /\ old'[h] # None => \E e \in Events : old'[h] = poster[e]
             /\ pc'[h] # "deleteRow"
  <2>1. PICK step \in Steps, d \in Events \cup {None},
              c \in Categories \cup {None}, url \in Urls \cup {None} :
           /\ Start(h, step, d, c, url) /\ step # "deleteRow"
           /\ url # None => d # None /\ url = poster[d]
    BY <1>2, ArrivalHasRead
  <2> QED BY <2>1 DEF Start, TypeOK, events
<1>3. ASSUME NEW e \in Events, poster'[e] # None PROVE poster'[e].style = "path"
  <2>1. \A f \in Files : UrlOf(f).style = "path"
    BY DEF UrlOf
  <2>2. ASSUME NEW h \in Handlers, UpdateEvent(h) PROVE poster'[e].style = "path"
    BY <1>1, <1>3, <2>1, <2>2 DEF UpdateEvent, UrlAfter, DeletedIsGone, TypeOK
  <2>3. ASSUME NEW h \in Handlers, NEW d \in Events, InsertEvent(h, d)
        PROVE  poster'[e].style = "path"
    BY <1>1, <1>3, <2>1, <2>3 DEF InsertEvent, DeletedIsGone, TypeOK
  <2>4. CASE poster' = poster
    BY <1>1, <1>3, <2>4 DEF DeletedIsGone
  <2> QED BY <1>2, <2>2, <2>3, <2>4
          DEF Next, Continue, Upload, DeleteFile, SetStatus, Cancel, Count, DeleteEvent,
              InsertCategory, CountCategory, DeleteCategory, Reserve, OrderMoves, Rejects,
              Crash, vars, events
<1>4. ASSUME NEW h \in Handlers, old'[h] # None PROVE old'[h].style = "path"
  <2>1. CASE old'[h] = old[h]
    BY <1>1, <1>4, <2>1 DEF DeletedIsGone
  <2>2. CASE Arrive(h)
    BY <1>1, <1>2, <1>4, <2>2 DEF DeletedIsGone
  <2>3. (Count(h) \/ DeleteFile(h) \/ \E f \in Files : Upload(h, f)) => old'[h] \in {old[h], None}
    BY DEF Count, DeleteFile, Upload, Await, Return, TypeOK
  <2>4. pc'[h] = "deleteCategory" => old'[h] = old[h] \/ Arrive(h)
    <3>1. ASSUME NEW g \in Handlers, Continue(g) \/ Rejects(g) PROVE old'[h] \in {old[h], None}
      <4>1. CASE Continue(g)
        BY <4>1, OthersStay, OldStays
      <4>2. CASE Rejects(g)
        BY <4>2 DEF Rejects, Return, TypeOK
      <4> QED BY <3>1, <4>1, <4>2
    <3>2. ASSUME NEW g \in Handlers, Arrive(g), g # h PROVE old'[h] = old[h]
      BY <1>2, <3>2 DEF TypeOK
    <3> QED BY <1>4, <3>1, <3>2 DEF Next, OrderMoves, Crash, vars, procs
  <2> QED BY <1>4, <2>1, <2>2, <2>3, <2>4, StepsOfOne
<1>5. ASSUME NEW h \in Handlers, old'[h] # None, Deleted(h)' PROVE old'[h].file \notin bucket'
  <2>1. pc'[h] = "deleteRow" \/ (pc'[h] = "update" /\ new'[h] # None)
    BY <1>5 DEF Deleted
  <2>2. CASE pc'[h] = pc[h] /\ on'[h] = on[h] /\ old'[h] = old[h] /\ new'[h] = new[h]
    <3>1. old[h].file \notin bucket
      BY <1>1, <1>5, <2>1, <2>2 DEF DeletedIsGone, Deleted
    <3>2. on[h] \in Events /\ old[h].file \in Files
      BY <1>5, <2>2 DEF RequestsAreSound, TypeOK, Urls
    <3>3. Names(on[h], old[h].file)
      BY <1>5, <2>2, <3>2 DEF Names
    <3>4. old[h].file \in uploaded
      BY <3>2, <3>3 DEF FilesApart
    <3>5. bucket' \subseteq bucket \cup (Files \ uploaded)
      <4>1. ASSUME NEW g \in Handlers, NEW f \in Files, Upload(g, f)
            PROVE  bucket' \subseteq bucket \cup (Files \ uploaded)
        BY <4>1 DEF Upload
      <4>2. ASSUME NEW g \in Handlers, DeleteFile(g) PROVE bucket' \subseteq bucket
        BY <4>2 DEF DeleteFile
      <4> QED BY <4>1, <4>2, BucketWrites
    <3> QED BY <2>2, <3>1, <3>4, <3>5
  <2>3. CASE DeleteFile(h)
    <3>1. old'[h] = old[h] /\ bucket' = bucket \ {KeyOf(old[h])}
      BY <1>1, <2>3 DEF DeleteFile, Await
    <3>2. KeyOf(old[h]) = old[h].file
      BY <1>1, <1>5, <3>1 DEF DeletedIsGone, KeyOf
    <3> QED BY <3>1, <3>2
  <2>4. ASSUME NEW f \in Files, Upload(h, f) PROVE FALSE
    BY <1>5, <2>1, <2>4 DEF Upload, RequestsAreSound, TypeOK
  <2>5. ~Count(h) \/ pc'[h] # "deleteRow"
    BY <1>5 DEF Count, Await, Return, TypeOK
  <2>6. ~Count(h) \/ pc'[h] # "update"
    BY DEF Count, Await, Return, TypeOK
  <2>7. Arrive(h) => pc'[h] # "deleteRow"
    BY <1>2
  <2> QED BY <1>5, <2>1, <2>2, <2>3, <2>4, <2>5, <2>6, <2>7, StepsOfOne
<1> QED BY <1>3, <1>4, <1>5 DEF DeletedIsGone

LEMMA NothingForgotten ==
    ASSUME Endpoint, TypeOK, TypeOK', RowsAreThere, PosterInv, DeletedIsGone, NoFileForgotten,
           [Next]_vars
    PROVE  NoFileForgotten'
<1> USE DEF PosterInv
<1> SUFFICES ASSUME failures' = 0, clash' = {}, NEW f \in bucket',
                    ~\E h \in Handlers : new'[h] = f
             PROVE  \E e \in Events : eventRow'[e] = "live" /\ poster'[e] = UrlOf(f)
  BY DEF NoFileForgotten, UrlOf
<1>1. failures = 0 /\ clash = {} /\ f \in Files
  BY HistoryGrows DEF TypeOK
<1>2. UrlOf(f) # None /\ f # None /\ UrlOf(f).file = f
  BY <1>1 DEF UrlOf, Urls
<1>3. ASSUME NEW g \in Handlers, Arrive(g) PROVE UNCHANGED <<eventRow, poster, bucket, new>>
  <2>1. PICK step, d, c, url : Start(g, step, d, c, url)
    BY <1>3, ArrivalHasRead
  <2> QED BY <2>1 DEF Start, events, storage
<1>4. f \in bucket
  <2>1. ASSUME NEW h \in Handlers, NEW k \in Files, Upload(h, k), k = f PROVE FALSE
    BY <2>1 DEF Upload, TypeOK
  <2>2. ASSUME NEW h \in Handlers, NEW k \in Files, Upload(h, k)
        PROVE  bucket' \subseteq bucket \cup {k}
    BY <2>2 DEF Upload
  <2>3. ASSUME NEW h \in Handlers, DeleteFile(h) PROVE bucket' \subseteq bucket
    BY <2>3 DEF DeleteFile
  <2> QED BY <2>1, <2>2, <2>3, BucketWrites
<1>5. ASSUME NEW h \in Handlers, new[h] = f
      PROVE  \E e \in Events : eventRow'[e] = "live" /\ poster'[e] = UrlOf(f)
  <2>1. new'[h] # new[h] /\ pc[h] \in {"create", "deleteOld", "update"}
    BY <1>2, <1>5 DEF RequestsAreSound
  <2>2. UpdateEvent(h) \/ \E e \in Events : InsertEvent(h, e)
    <3>1. ASSUME NEW g \in Handlers, Continue(g), g # h PROVE new'[h] = new[h]
      BY <3>1, OthersStay
    <3>2. ASSUME Continue(h) PROVE UpdateEvent(h) \/ \E e \in Events : InsertEvent(h, e)
      BY <2>1, <3>2 DEF Continue, Upload, DeleteFile, SetStatus, Cancel, Count, DeleteEvent,
                        InsertCategory, CountCategory, DeleteCategory, Reserve, Await
    <3>3. ASSUME NEW g \in Handlers, Rejects(g) \/ Crash PROVE FALSE
      BY <3>3 DEF Rejects, Crash, TypeOK
    <3> QED BY <1>3, <2>1, <3>1, <3>2, <3>3 DEF Next, OrderMoves, vars, procs
  <2>3. ASSUME NEW e \in Events, InsertEvent(h, e)
        PROVE  eventRow'[e] = "live" /\ poster'[e] = UrlOf(f)
    BY <1>2, <1>5, <2>3 DEF InsertEvent, TypeOK
  <2>4. ASSUME UpdateEvent(h)
        PROVE  on[h] \in Events /\ eventRow'[on[h]] = "live" /\ poster'[on[h]] = UrlOf(f)
    <3>1. on[h] \in Events /\ OnPoster(h, on[h])
      BY <2>4 DEF UpdateEvent, OnPoster, PosterSteps, TypeOK
    <3>2. eventRow[on[h]] = "live"
      BY <1>1, <3>1 DEF OneAtATime
    <3> QED BY <1>2, <1>5, <2>4, <3>1, <3>2 DEF UpdateEvent, UrlAfter, TypeOK
  <2> QED BY <2>2, <2>3, <2>4
<1>6. ASSUME NEW e \in Events, eventRow[e] = "live", poster[e] = UrlOf(f)
      PROVE  eventRow'[e] = "live" /\ poster'[e] = UrlOf(f)
  <2>1. ASSUME NEW h \in Handlers, UpdateEvent(h) \/ DeleteEvent(h), on[h] = e, Deleted(h)
        PROVE  FALSE
    <3>1. OnPoster(h, e)
      BY <2>1 DEF UpdateEvent, DeleteEvent, OnPoster, PosterSteps
    <3>2. old[h] = UrlOf(f)
      BY <1>1, <1>6, <3>1 DEF OneAtATime
    <3> QED BY <1>1, <1>2, <1>4, <2>1, <3>2 DEF DeletedIsGone
  <2>2. ASSUME NEW h \in Handlers, UpdateEvent(h)
        PROVE  eventRow'[e] = "live" /\ poster'[e] = UrlOf(f)
    <3>1. CASE on[h] # e
      BY <1>6, <2>2, <3>1 DEF UpdateEvent, TypeOK
    <3>2. CASE on[h] = e
      <4>1. new[h] = None /\ OnPoster(h, e)
        BY <2>1, <2>2, <3>2 DEF UpdateEvent, Deleted, OnPoster, PosterSteps
      <4>2. old[h] = poster[e]
        BY <1>1, <4>1 DEF OneAtATime
      <4> QED BY <1>6, <2>2, <3>2, <4>1, <4>2 DEF UpdateEvent, UrlAfter, TypeOK
    <3> QED BY <3>1, <3>2
  <2>3. ASSUME NEW h \in Handlers, DeleteEvent(h)
        PROVE  eventRow'[e] = "live" /\ poster'[e] = UrlOf(f)
    <3>1. on[h] # e
      BY <2>1, <2>3 DEF DeleteEvent, Deleted
    <3> QED BY <1>6, <2>3, <3>1 DEF DeleteEvent, TypeOK
  <2>4. ASSUME NEW h \in Handlers, NEW d \in Events, InsertEvent(h, d)
        PROVE  eventRow'[e] = "live" /\ poster'[e] = UrlOf(f)
    BY <1>6, <2>4 DEF InsertEvent, TypeOK
  <2> QED BY <1>3, <1>6, <2>2, <2>3, <2>4
          DEF Next, Continue, Upload, DeleteFile, SetStatus, Cancel, Count, InsertCategory,
              CountCategory, DeleteCategory, Reserve, OrderMoves, Rejects, Crash, vars, events
<1> QED BY <1>1, <1>4, <1>5, <1>6 DEF NoFileForgotten

\* With MinIO, no stored file is forgotten as long as no call fails and no two
\* requests meet on one poster.
THEOREM FilesAreRemembered == ASSUME Endpoint PROVE Spec => []NoFileForgotten
<1>1. Init => DeletedIsGone /\ NoFileForgotten
  BY DEF Init, DeletedIsGone, Deleted, NoFileForgotten
<1>2. TypeOK /\ TypeOK' /\ RowsAreThere /\ PosterInv /\ DeletedIsGone /\ NoFileForgotten
      /\ [Next]_vars => DeletedIsGone' /\ NoFileForgotten'
  BY DeletedStaysGone, NothingForgotten
<1> QED BY <1>1, <1>2, CatalogTyped, RowsStayThere, PosterInvHolds, PTL DEF Spec

\* With MinIO, a new poster takes the place of the old one, whose file is deleted
\* by the time the row is written, as long as no call fails; two requests that
\* meet on one poster change nothing about it.
THEOREM OldPostersAreDeleted == ASSUME Endpoint PROVE Spec => OldPosterDeleted
<1> DEFINE Replaced ==
      \A h \in Handlers :
          pc[h] = "update" /\ pc'[h] = "idle" /\ new[h] # None /\ old[h] # None /\ failures' = 0
              => old[h].file \notin bucket'
<1>1. Init => DeletedIsGone
  BY DEF Init, DeletedIsGone, Deleted
<1>2. TypeOK /\ TypeOK' /\ RowsAreThere /\ PosterInv /\ DeletedIsGone /\ [Next]_vars
        => DeletedIsGone'
  BY DeletedStaysGone
<1>3. TypeOK /\ RowsAreThere /\ DeletedIsGone /\ [Next]_vars => [Replaced]_vars
  <2> SUFFICES ASSUME TypeOK, RowsAreThere, DeletedIsGone, Next, failures' = 0,
                      NEW h \in Handlers, pc[h] = "update", pc'[h] = "idle",
                      new[h] # None, old[h] # None
               PROVE  old[h].file \notin bucket'
    OBVIOUS
  <2>1. old[h].file \notin bucket
    BY HistoryGrows DEF DeletedIsGone, Deleted
  <2>2. ASSUME NEW g \in Handlers, Arrive(g) PROVE bucket' = bucket
    <3>1. PICK step, d, c, url : Start(g, step, d, c, url)
      BY <2>2, ArrivalHasRead
    <3> QED BY <3>1 DEF Start, storage
  <2>3. ASSUME NEW g \in Handlers, NEW f \in Files, Upload(g, f) PROVE FALSE
    BY <2>3 DEF Upload, TypeOK
  <2>4. bucket' \subseteq bucket
    BY <2>2, <2>3
       DEF Next, Continue, InsertEvent, DeleteFile, UpdateEvent, SetStatus, Cancel, Count,
           DeleteEvent, InsertCategory, CountCategory, DeleteCategory, Reserve, OrderMoves,
           Rejects, Crash, vars, storage
  <2> QED BY <2>1, <2>4
<1> QED BY <1>1, <1>2, <1>3, CatalogTyped, RowsStayThere, PosterInvHolds, PTL
       DEF Spec, OldPosterDeleted
=============================================================================
