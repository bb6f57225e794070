--------------------------- MODULE EventsCatalog ---------------------------
(***************************************************************************)
(* Events, their posters and their ticket categories: EventsService        *)
(* (create, update, updateStatus, remove), CategoriesService (create,      *)
(* remove) and StorageService, over the foreign keys that tie orders to    *)
(* both.                                                                   *)
(*                                                                         *)
(* A request reads the row, then calls S3 and PostgreSQL one after the     *)
(* other; each action is one awaited call.  Orders appear only as rows     *)
(* that refer to a category: module Orders has the rest of them, and       *)
(* EventsCache the invalidation that ends the writes to events.            *)
(***************************************************************************)
EXTENDS Integers

CONSTANTS
    Events, Categories, Orders,
    Files,         \* object keys: posters/ and a random UUID
    Handlers,      \* requests in flight at once
    None,
    Endpoint,      \* S3_ENDPOINT is set (MinIO); FALSE: AWS
    MaxFailures    \* bound: rejected calls and crashes

\* URLs of posters: the bucket is in the path or in the host.
Urls == [style : {"path", "host"}, file : Files]

ASSUME NoneIsNothing == None \notin Events \cup Categories \cup Orders \cup Files
\* A URL is neither a key nor null.
ASSUME UrlsAreUrls == Urls \cap (Files \cup {None}) = {}
ASSUME CatalogBounds == Endpoint \in BOOLEAN /\ MaxFailures \in Nat

VARIABLES
    eventRow, status, poster,   \* events; poster: a URL or None
    categoryRow, home,          \* ticket_categories; home: the eventId
    order, bought,              \* orders; bought: the categoryId
    bucket,                     \* keys of the stored objects
    uploaded,                   \* keys ever stored (history)
    pc,                         \* the await each handler has reached
    on, cat,                    \* the event and the category it works on
    old,                        \* the poster URL it has read
    new,                        \* the key it has uploaded
    clash,                      \* events two poster requests were on at once (history)
    failures

events == <<eventRow, status, poster>>
categories == <<categoryRow, home>>
sales == <<order, bought>>
storage == <<bucket, uploaded>>
procs == <<pc, on, cat, old, new>>
vars == <<events, categories, sales, storage, procs, clash, failures>>

Row == {"unborn", "live", "gone"}
Active == {"PENDING", "PAID"}
PosterSteps == {"upload", "deleteOld", "update", "count", "deletePoster", "deleteRow"}

\* uploadFile: the bucket is in the path of a MinIO URL, in the host of an AWS URL.
UrlOf(f) == [style |-> IF Endpoint THEN "path" ELSE "host", file |-> f]

\* extractKeyFromUrl: without the bucket in the path, the key is the whole URL.
KeyOf(url) == IF url.style = "path" THEN url.file ELSE url

EventOf(o) == home[bought[o]]
SoldFor(e) == {o \in Orders : order[o] # "unborn" /\ EventOf(o) = e}
SoldOf(c) == {o \in Orders : order[o] # "unborn" /\ bought[o] = c}

Init ==
    /\ eventRow = [e \in Events |-> "unborn"]
    /\ status = [e \in Events |-> "DRAFT"]
    /\ poster = [e \in Events |-> None]
    /\ categoryRow = [c \in Categories |-> "unborn"]
    /\ home = [c \in Categories |-> None]
    /\ order = [o \in Orders |-> "unborn"]
    /\ bought = [o \in Orders |-> None]
    /\ bucket = {} /\ uploaded = {} /\ clash = {}
    /\ pc = [h \in Handlers |-> "idle"]
    /\ on = [h \in Handlers |-> None] /\ cat = [h \in Handlers |-> None]
    /\ old = [h \in Handlers |-> None] /\ new = [h \in Handlers |-> None]
    /\ failures = 0

Await(h, step) == pc' = [pc EXCEPT ![h] = step] /\ UNCHANGED <<on, cat, old, new>>

Start(h, step, e, c, url) ==
    /\ pc[h] = "idle"
    /\ pc' = [pc EXCEPT ![h] = step]
    /\ on' = [on EXCEPT ![h] = e]
    /\ cat' = [cat EXCEPT ![h] = c]
    /\ old' = [old EXCEPT ![h] = url]
    /\ clash' = IF step \in PosterSteps /\ \E g \in Handlers : pc[g] \in PosterSteps /\ on[g] = e
                THEN clash \cup ({e} \ {None}) ELSE clash
    /\ UNCHANGED <<events, categories, sales, storage, new, failures>>

Return(h) ==
    /\ pc' = [pc EXCEPT ![h] = "idle"]
    /\ on' = [on EXCEPT ![h] = None] /\ cat' = [cat EXCEPT ![h] = None]
    /\ old' = [old EXCEPT ![h] = None] /\ new' = [new EXCEPT ![h] = None]

-----------------------------------------------------------------------------
(* EventsService.create and update *)

\* With or without a poster.
Create(h) == Start(h, "upload", None, None, None) \/ Start(h, "create", None, None, None)

Update(h, e) ==
    /\ eventRow[e] = "live"
    /\ Start(h, "upload", e, None, poster[e]) \/ Start(h, "update", e, None, poster[e])

\* Mutation: an old poster is deleted whether or not there is one.
UploadAlways(h, f) ==
    /\ pc[h] = "upload"
    /\ f \notin uploaded
    /\ bucket' = bucket \cup {f} /\ uploaded' = uploaded \cup {f}
    /\ pc' = [pc EXCEPT ![h] = IF on[h] = None THEN "create" ELSE "deleteOld"]
    /\ new' = [new EXCEPT ![h] = f]
    /\ UNCHANGED <<events, categories, sales, on, cat, old, clash, failures>>

\* uploadFile stores the object under a fresh key.
Upload(h, f) ==
    /\ pc[h] = "upload"
    /\ f \notin uploaded
    /\ bucket' = bucket \cup {f} /\ uploaded' = uploaded \cup {f}
    /\ pc' = [pc EXCEPT ![h] = CASE on[h] = None -> "create"
                                 [] on[h] # None /\ old[h] # None -> "deleteOld"
                                 [] OTHER -> "update"]
    /\ new' = [new EXCEPT ![h] = f]
    /\ UNCHANGED <<events, categories, sales, on, cat, old, clash, failures>>

InsertEvent(h, e) ==
    /\ pc[h] = "create"
    /\ eventRow[e] = "unborn"
    /\ eventRow' = [eventRow EXCEPT ![e] = "live"]
    /\ poster' = [poster EXCEPT ![e] = IF new[h] = None THEN None ELSE UrlOf(new[h])]
    /\ Return(h)
    /\ UNCHANGED <<status, categories, sales, storage, clash, failures>>

\* deleteFile: an error is logged and the request goes on.
DeleteFile(h) ==
    /\ pc[h] \in {"deleteOld", "deletePoster"}
    /\ \/ bucket' = bucket \ {KeyOf(old[h])} /\ UNCHANGED failures
       \/ failures < MaxFailures /\ failures' = failures + 1 /\ UNCHANGED bucket
    /\ Await(h, IF pc[h] = "deleteOld" THEN "update" ELSE "deleteRow")
    /\ UNCHANGED <<events, categories, sales, uploaded, clash>>

\* Mutation: the URL that was read wins over the one uploaded.
UrlBefore(h) == IF old[h] = None /\ new[h] # None THEN UrlOf(new[h]) ELSE old[h]
\* The posterUrl of the update; None is undefined, and leaves the column alone.
UrlAfter(h) == IF new[h] # None THEN UrlOf(new[h]) ELSE old[h]

\* event.update throws when the row is gone.
UpdateEvent(h) ==
    /\ pc[h] = "update"
    /\ poster' = IF eventRow[on[h]] = "live" /\ UrlAfter(h) # None
                 THEN [poster EXCEPT ![on[h]] = UrlAfter(h)] ELSE poster
    /\ Return(h)
    /\ UNCHANGED <<eventRow, status, categories, sales, storage, clash, failures>>

-----------------------------------------------------------------------------
(* EventsService.updateStatus *)

UpdateStatus(h, e) ==
    /\ eventRow[e] = "live"
    /\ \/ Start(h, "setStatus", e, None, None)
       \/ status[e] # "CANCELLED" /\ Start(h, "cancel", e, None, None)

SetStatus(h, s) ==
    /\ pc[h] = "setStatus"
    /\ status' = IF eventRow[on[h]] = "live" THEN [status EXCEPT ![on[h]] = s] ELSE status
    /\ Return(h)
    /\ UNCHANGED <<eventRow, poster, categories, sales, storage, clash, failures>>

\* One transaction: the orders paid for are settled, then the event is cancelled.
\* The emails that follow it are in module Orders.
Cancel(h) ==
    /\ pc[h] = "cancel"
    /\ IF eventRow[on[h]] = "live"
       THEN /\ status' = [status EXCEPT ![on[h]] = "CANCELLED"]
            /\ order' = [o \in Orders |-> IF o \in SoldFor(on[h]) /\ order[o] = "PAID"
                                          THEN "settled" ELSE order[o]]
       ELSE UNCHANGED <<status, order>>
    /\ Return(h)
    /\ UNCHANGED <<eventRow, poster, categories, bought, storage, clash, failures>>

-----------------------------------------------------------------------------
(* EventsService.remove *)

Remove(h, e) == eventRow[e] = "live" /\ Start(h, "count", e, None, poster[e])

\* Mutation: the poster is left in the bucket.
CountOnly(h) ==
    /\ pc[h] = "count"
    /\ IF \E o \in SoldFor(on[h]) : order[o] \in Active
       THEN Return(h)
       ELSE Await(h, "deleteRow")
    /\ UNCHANGED <<events, categories, sales, storage, clash, failures>>

\* PENDING and PAID orders keep the event.
Count(h) ==
    /\ pc[h] = "count"
    /\ IF \E o \in SoldFor(on[h]) : order[o] \in Active
       THEN Return(h)
       ELSE Await(h, IF old[h] = None THEN "deleteRow" ELSE "deletePoster")
    /\ UNCHANGED <<events, categories, sales, storage, clash, failures>>

Cascade(e) ==
    categoryRow' = [c \in Categories |-> IF categoryRow[c] = "live" /\ home[c] = e
                                         THEN "gone" ELSE categoryRow[c]]

\* Mutation: orders do not restrict the deletion of their event.
DeleteAnyEvent(h) ==
    /\ pc[h] = "deleteRow"
    /\ eventRow' = [eventRow EXCEPT ![on[h]] = "gone"]
    /\ Cascade(on[h])
    /\ Return(h)
    /\ UNCHANGED <<status, poster, home, sales, storage, clash, failures>>

\* Any order of the event, settled or not, restricts the deletion of its row;
\* categories are deleted with it.
DeleteEvent(h) ==
    /\ pc[h] = "deleteRow"
    /\ IF eventRow[on[h]] = "live" /\ SoldFor(on[h]) = {}
       THEN /\ eventRow' = [eventRow EXCEPT ![on[h]] = "gone"]
            /\ Cascade(on[h])
       ELSE UNCHANGED <<eventRow, categoryRow>>
    /\ Return(h)
    /\ UNCHANGED <<status, poster, home, sales, storage, clash, failures>>

-----------------------------------------------------------------------------
(* CategoriesService *)

AddCategory(h, e) ==
    /\ eventRow[e] = "live" /\ status[e] # "CANCELLED"
    /\ Start(h, "addCategory", e, None, None)

\* The foreign key wants the event's row.
InsertCategory(h, c) ==
    /\ pc[h] = "addCategory"
    /\ categoryRow[c] = "unborn"
    /\ IF eventRow[on[h]] = "live"
       THEN /\ categoryRow' = [categoryRow EXCEPT ![c] = "live"]
            /\ home' = [home EXCEPT ![c] = on[h]]
       ELSE UNCHANGED categories
    /\ Return(h)
    /\ UNCHANGED <<events, sales, storage, clash, failures>>

RemoveCategory(h, c) ==
    categoryRow[c] = "live" /\ Start(h, "countCategory", home[c], c, None)

CountCategory(h) ==
    /\ pc[h] = "countCategory"
    /\ IF \E o \in SoldOf(cat[h]) : order[o] \in Active
       THEN Return(h)
       ELSE Await(h, "deleteCategory")
    /\ UNCHANGED <<events, categories, sales, storage, clash, failures>>

\* A row that is gone, or has orders, cannot be deleted.
DeleteCategory(h) ==
    /\ pc[h] = "deleteCategory"
    /\ categoryRow' = IF categoryRow[cat[h]] = "live" /\ SoldOf(cat[h]) = {}
                      THEN [categoryRow EXCEPT ![cat[h]] = "gone"] ELSE categoryRow
    /\ Return(h)
    /\ UNCHANGED <<events, home, sales, storage, clash, failures>>

-----------------------------------------------------------------------------
(* Orders *)

\* checkout reads the category and its event, then reserves in a transaction.
Checkout(h, c) ==
    /\ categoryRow[c] = "live" /\ status[home[c]] = "PUBLISHED"
    /\ Start(h, "reserve", home[c], c, None)

\* The transaction reads the category again.
Reserve(h, o) ==
    /\ pc[h] = "reserve"
    /\ order[o] = "unborn"
    /\ IF categoryRow[cat[h]] = "live"
       THEN /\ order' = [order EXCEPT ![o] = "PENDING"]
            /\ bought' = [bought EXCEPT ![o] = cat[h]]
       ELSE UNCHANGED sales
    /\ Return(h)
    /\ UNCHANGED <<events, categories, storage, clash, failures>>

\* An order is paid; an order fails, expires or is refunded.
OrderMoves(o) ==
    /\ \/ order[o] = "PENDING" /\ order' = [order EXCEPT ![o] = "PAID"]
       \/ order[o] \in Active /\ order' = [order EXCEPT ![o] = "settled"]
    /\ UNCHANGED <<events, categories, bought, storage, procs, clash, failures>>

-----------------------------------------------------------------------------
(* Failures *)

\* The awaited call rejects (deleteFile never does): the request ends.
Rejects(h) ==
    /\ pc[h] \notin {"idle", "deleteOld", "deletePoster"}
    /\ failures < MaxFailures
    /\ failures' = failures + 1
    /\ Return(h)
    /\ UNCHANGED <<events, categories, sales, storage, clash>>

Crash ==
    /\ failures < MaxFailures
    /\ failures' = failures + 1
    /\ pc' = [h \in Handlers |-> "idle"]
    /\ on' = [h \in Handlers |-> None] /\ cat' = [h \in Handlers |-> None]
    /\ old' = [h \in Handlers |-> None] /\ new' = [h \in Handlers |-> None]
    /\ UNCHANGED <<events, categories, sales, storage, clash>>

Arrive(h) ==
    \/ Create(h)
    \/ \E e \in Events : Update(h, e) \/ UpdateStatus(h, e) \/ Remove(h, e) \/ AddCategory(h, e)
    \/ \E c \in Categories : RemoveCategory(h, c) \/ Checkout(h, c)

Continue(h) ==
    \/ \E f \in Files : Upload(h, f)
    \/ \E e \in Events : InsertEvent(h, e)
    \/ DeleteFile(h) \/ UpdateEvent(h) \/ Cancel(h)
    \/ \E s \in {"DRAFT", "PUBLISHED"} : SetStatus(h, s)
    \/ Count(h) \/ DeleteEvent(h)
    \/ \E c \in Categories : InsertCategory(h, c)
    \/ CountCategory(h) \/ DeleteCategory(h)
    \/ \E o \in Orders : Reserve(h, o)

Next ==
    \/ \E h \in Handlers : Arrive(h) \/ Continue(h) \/ Rejects(h)
    \/ \E o \in Orders : OrderMoves(o)
    \/ Crash

Spec == Init /\ [][Next]_vars

-----------------------------------------------------------------------------
(* Properties *)

Steps == PosterSteps \cup {"idle", "create", "setStatus", "cancel", "addCategory",
                           "countCategory", "deleteCategory", "reserve"}

\* Every variable has its type, and every request is on a row that it has read.
TypeOK ==
    /\ eventRow \in [Events -> Row] /\ categoryRow \in [Categories -> Row]
    /\ status \in [Events -> {"DRAFT", "PUBLISHED", "CANCELLED"}]
    /\ poster \in [Events -> Urls \cup {None}]
    /\ home \in [Categories -> Events \cup {None}]
    /\ \A c \in Categories : categoryRow[c] # "unborn" => home[c] \in Events
    /\ order \in [Orders -> {"unborn", "PENDING", "PAID", "settled"}]
    /\ bought \in [Orders -> Categories \cup {None}]
    /\ \A o \in Orders : order[o] # "unborn" => bought[o] \in Categories
    /\ bucket \subseteq uploaded /\ uploaded \subseteq Files
    /\ pc \in [Handlers -> Steps]
    /\ on \in [Handlers -> Events \cup {None}]
    /\ \A h \in Handlers : pc[h] \notin {"idle", "create", "upload"} => on[h] \in Events
    /\ cat \in [Handlers -> Categories \cup {None}]
    /\ \A h \in Handlers :
          pc[h] \in {"countCategory", "deleteCategory", "reserve"} => cat[h] \in Categories
    /\ old \in [Handlers -> Urls \cup {None}]
    /\ \A h \in Handlers : pc[h] \in {"deleteOld", "deletePoster"} => old[h] \in Urls
    /\ new \in [Handlers -> Files \cup {None}]
    /\ clash \subseteq Events
    /\ failures \in Nat

\* No deletion, however it races with checkouts and with categories being added,
\* takes the category of an order or the event of a category away.
RowsAreThere ==
    /\ \A o \in Orders : order[o] # "unborn" => categoryRow[bought[o]] = "live"
    /\ \A c \in Categories : categoryRow[c] = "live" => eventRow[home[c]] = "live"

Dangling(e) ==
    eventRow[e] = "live" /\ poster[e] # None /\ poster[e].file \notin bucket

\* The file is deleted before the row is written: until then the row dangles.
Replacing(e) == \E h \in Handlers : on[h] = e /\ pc[h] \in {"update", "deleteRow"}

\* An event shows a poster that is stored, unless a request is replacing it, a
\* call has failed, two requests worked on its poster at once, or it has orders
\* (a removal that a foreign key refuses has deleted the poster before).
PosterIsStored ==
    failures = 0 =>
        \A e \in Events \ clash : Dangling(e) => Replacing(e) \/ SoldFor(e) # {}

\* No stored file is forgotten, if no call fails and no two requests work on one
\* poster at once: an event shows it or a request is about to.
NoFileForgotten ==
    failures = 0 /\ clash = {} =>
        \A f \in bucket :
            \/ \E e \in Events : eventRow[e] = "live" /\ poster[e] = UrlOf(f)
            \/ \E h \in Handlers : new[h] = f

\* "If a new poster is uploaded, the old one is deleted from storage."
OldPosterDeleted ==
    [][\A h \in Handlers :
          pc[h] = "update" /\ pc'[h] = "idle" /\ new[h] # None /\ old[h] # None /\ failures' = 0
              => old[h].file \notin bucket']_vars

=============================================================================
