-------------------------- MODULE AdminContentProofs --------------------------
(***************************************************************************)
(* Proofs about AdminContent for every table, every text, link and number an   *)
(* operator can type, and every number of writes.  The invariant has a part    *)
(* for the table, one for the list and its query, one for the form and one for *)
(* the calls under way.                                                       *)
(***************************************************************************)
EXTENDS AdminContent, TLAPS

-----------------------------------------------------------------------------
(* What the pages submit.                                                   *)

Ordered == {"banners", "campaigns"}

\* The orders a form holds: typed, or of a row.
Known(n) == n \in Orders \/ Fits(n)

\* A row as the pages fill it in: markup is for banners alone.
Fillable(k, row) ==
    row \in Row /\ (k # "banners" => row.markup = "") /\ (k \in Ordered => Known(row.number))

\* A payload: what its page has normalised.
Presentable(k, p) ==
    /\ p \in Row
    /\ k \in Ordered => p.link # "%path%" /\ p.number >= 1 /\ Known(p.number)
    /\ p.markup # "" => k = "banners" /\ p.advanced

\* An order as it is stored: one from 1 up, or what was left of a larger one.
CleanOrder(n) ==
    Fits(n) /\ (n >= 1 \/ \E m \in Orders : m >= Half /\ n = Narrowed(m))

CleanRow(k, row) ==
    /\ row \in Row
    /\ k \in Ordered => row.link # "%path%" /\ CleanOrder(row.number)
    /\ row.markup # "" => k = "banners"
    /\ k # "banners" => row.text # ""

LEMMA HalfIsLarge == Half \in Int /\ Half >= 2
<1>1. Half \in Nat \ {0, 1}
  BY PagesAssumption, Zenon
<1> QED
  BY <1>1

LEMMA SmallNumbersFit == Fits(0) /\ Fits(1)
BY HalfIsLarge DEF Fits

LEMMA NarrowedFits ==
    ASSUME NEW n \in Int
    PROVE  Narrowed(n) \in Int /\ Fits(Narrowed(n))
<1>1. Half \in Int /\ 2 * Half \in Nat /\ 2 * Half > 0 /\ n + Half \in Int
  BY HalfIsLarge
<1>2. \A d \in Nat : \A m \in Int : d > 0 => m % d \in 0..(d - 1)
  OBVIOUS
<1>3. (n + Half) % (2 * Half) \in 0..(2 * Half - 1)
  BY <1>1, <1>2
<1> DEFINE m == (n + Half) % (2 * Half)
<1> HIDE DEF m
<1>4. m - Half \in Int /\ m - Half \in (-Half)..(Half - 1)
  BY <1>1, <1>3 DEF m
<1> QED
  BY <1>4 DEF Narrowed, Fits, m

\* A payload's order, stored.
LEMMA OrderIsClean ==
    ASSUME NEW n \in Int, n >= 1, Known(n)
    PROVE  CleanOrder(Narrowed(n))
<1>1. CASE Fits(n)
  BY <1>1 DEF Narrowed, CleanOrder
<1>2. CASE ~Fits(n)
  <2>1. n \in Orders /\ n >= Half
    BY <1>2, HalfIsLarge DEF Known, Fits
  <2> QED
    BY <2>1, NarrowedFits DEF CleanOrder
<1> QED
  BY <1>1, <1>2

LEMMA FormsAreFillable ==
    ASSUME NEW k \in Kind, NEW f \in Forms(k)
    PROVE  Fillable(k, f)
<1>a. 0 \in Int /\ 1 \in Int
  OBVIOUS
<1>0. "" \in Markup /\ Times \subseteq Int /\ Orders \subseteq Int /\ 0 \in Int /\ 1 \in Int
  BY <1>a, PagesAssumption, Zenon
<1>1. /\ "" \in Markup /\ Time \subseteq Int /\ ThisMonth \in Int
      /\ Order \subseteq Orders /\ Orders \subseteq Int
  BY <1>0, Zenon DEF Time, Order, ThisMonth
<1>2. /\ k = "news" => f \in NewsForms
      /\ k = "faq" => f \in FaqForms
      /\ k = "banners" => f \in BannerForms
      /\ k = "campaigns" => f \in CampaignForms
      /\ k = "collectibles" => f \in CollectibleForms
  BY DEF Forms
<1>3. f \in NewsForms \cup FaqForms \cup BannerForms \cup CampaignForms \cup CollectibleForms
  BY <1>2 DEF Kind
<1>4. f \in Row
  BY <1>1, <1>3 DEF NewsForms, FaqForms, BannerForms, CampaignForms, CollectibleForms,
     Inputs, Row
<1>5. k # "banners" => f.markup = ""
  BY <1>2 DEF Kind, NewsForms, FaqForms, CampaignForms, CollectibleForms, Inputs
<1>6. k \in Ordered => Known(f.number)
  BY <1>1, <1>2 DEF Ordered, Known, BannerForms, CampaignForms, Inputs
<1> QED
  BY <1>4, <1>5, <1>6 DEF Fillable

LEMMA BlankIsFillable ==
    ASSUME NEW k \in Kind
    PROVE  Fillable(k, Blank(k))
<1>1. Blank(k) \in {Content("", "/", 0, ""), Content("", "/", 1, "")}
  BY DEF Kind, Blank, NewsBlank, FaqBlank, BannerBlank, CampaignBlank, CollectibleBlank,
     ThisMonth
<1>2. "" \in Markup
  BY PagesAssumption, Zenon
<1>3. \A n \in Int : /\ Content("", "/", n, "") \in Row
                    /\ Content("", "/", n, "").markup = ""
                    /\ Content("", "/", n, "").number = n
  BY <1>2 DEF Content, Row
<1>4. Known(0) /\ Known(1)
  BY SmallNumbersFit DEF Known
<1>5. ASSUME NEW n \in {0, 1}, Blank(k) = Content("", "/", n, "") PROVE Fillable(k, Blank(k))
  <2>1. n \in Int /\ Known(n)
    BY <1>4
  <2> QED
    BY <1>3, <1>5, <2>1 DEF Fillable
<1> QED
  BY <1>1, <1>5

\* Whatever a form was left at, its payload is fit for the public pages.
LEMMA PayloadIsPresentable ==
    ASSUME NEW k \in Kind, NEW f, Fillable(k, f)
    PROVE  Presentable(k, Payload(k, f))
<1>0. /\ f \in Row /\ (k # "banners" => f.markup = "")
      /\ k \in Ordered => Known(f.number)
  BY DEF Fillable
<1>1. /\ AtLeastOne(f.number) \in Int /\ AtLeastOne(f.number) >= 1
      /\ k \in Ordered => Known(AtLeastOne(f.number))
  <2>1. f.number \in Int /\ Known(1)
    BY <1>0, SmallNumbersFit DEF Row, Known
  <2> DEFINE n == f.number
  <2> HIDE DEF n
  <2>2. n \in Int => AtLeastOne(n) \in Int /\ AtLeastOne(n) >= 1
    BY DEF AtLeastOne
  <2>3. AtLeastOne(n) \in {1, n}
    BY DEF AtLeastOne
  <2> QED
    BY <1>0, <2>1, <2>2, <2>3, Zenon DEF n
<1>2. NormalisePath(f.link) \in Link \cup {"/"} /\ NormalisePath(f.link) # "%path%"
  BY <1>0 DEF NormalisePath, Row
<1>3. CASE k = "news"
  <2>1. Payload(k, f) = [f EXCEPT !.advanced = FALSE]
    BY <1>3 DEF Payload, NewsPayload
  <2> QED
    BY <1>0, <1>3, <2>1 DEF Presentable, Row, Ordered
<1>4. CASE k \in {"faq", "collectibles"}
  <2>1. Payload(k, f) = f
    BY <1>4 DEF Payload, FaqPayload, CollectiblePayload
  <2> QED
    BY <1>0, <1>4, <2>1 DEF Presentable, Ordered
<1>5. CASE k = "banners"
  <2> DEFINE raw == f.markup # ""
             link == NormalisePath(f.link)
             number == AtLeastOne(f.number)
  <2>1. Payload(k, f) = [f EXCEPT !.link = link, !.advanced = raw, !.number = number]
    BY <1>5 DEF Payload, BannerPayload
  <2>2. raw \in BOOLEAN /\ (f.markup # "" => raw)
    OBVIOUS
  <2>3. /\ link \in Link \cup {"/"} /\ link # "%path%"
        /\ number \in Int /\ number >= 1 /\ Known(number)
    BY <1>1, <1>2, <1>5 DEF Ordered
  <2> HIDE DEF raw, link, number
  <2>4. /\ Payload(k, f) \in Row
        /\ Payload(k, f).link = link /\ Payload(k, f).number = number
        /\ Payload(k, f).advanced = raw /\ Payload(k, f).markup = f.markup
    BY <1>0, <2>1, <2>2, <2>3 DEF Row
  <2> QED
    BY <1>5, <2>2, <2>3, <2>4 DEF Presentable
<1>6. CASE k = "campaigns"
  <2> DEFINE link == NormalisePath(f.link)
             number == AtLeastOne(f.number)
  <2>1. Payload(k, f) = [f EXCEPT !.link = link, !.number = number]
    BY <1>6 DEF Payload, CampaignPayload
  <2>2. /\ link \in Link \cup {"/"} /\ link # "%path%"
        /\ number \in Int /\ number >= 1 /\ Known(number)
    BY <1>1, <1>2, <1>6 DEF Ordered
  <2> HIDE DEF link, number
  <2>3. /\ Payload(k, f) \in Row
        /\ Payload(k, f).link = link /\ Payload(k, f).number = number
        /\ Payload(k, f).markup = f.markup
    BY <1>0, <2>1, <2>2 DEF Row
  <2> QED
    BY <1>0, <1>6, <2>2, <2>3 DEF Presentable
<1> QED
  BY <1>3, <1>4, <1>5, <1>6 DEF Kind

\* What the server makes of one it does not refuse.
LEMMA StoredIsClean ==
    ASSUME NEW k \in Kind, NEW p, Presentable(k, p), ~Refused(k, p)
    PROVE  /\ CleanRow(k, Stored(k, p))
           /\ Stored(k, p).markup = p.markup
<1>0. p \in Row /\ p.number \in Int
  BY DEF Presentable, Row
<1>1. k # "banners" => p.text # ""
  BY DEF Refused, NewsRefused, FaqRefused, CampaignRefused, CollectibleRefused, Kind
<1>2. CASE k = "news"
  <2> DEFINE n == IF p.number = 0 THEN 1 ELSE p.number
  <2>1. Stored(k, p) = [p EXCEPT !.number = n]
    BY <1>2 DEF Stored, Now
  <2>2. n \in Int
    BY <1>0
  <2> HIDE DEF n
  <2>3. /\ Stored(k, p) \in Row
        /\ Stored(k, p).text = p.text /\ Stored(k, p).markup = p.markup
    BY <1>0, <2>1, <2>2 DEF Row
  <2> QED
    BY <1>0, <1>1, <1>2, <2>3 DEF CleanRow, Presentable, Ordered
<1>3. CASE k = "collectibles"
  <2>1. Stored(k, p) = p
    BY <1>3 DEF Stored
  <2> QED
    BY <1>0, <1>1, <1>3, <2>1 DEF CleanRow, Presentable, Ordered
<1>4. CASE k \in {"faq", "banners", "campaigns"}
  <2> DEFINE n == Narrowed(p.number)
  <2>1. Stored(k, p) = [p EXCEPT !.number = n]
    BY <1>4 DEF Stored
  <2>2. n \in Int /\ (k \in Ordered => CleanOrder(n))
    BY <1>0, NarrowedFits, OrderIsClean DEF Presentable
  <2> HIDE DEF n
  <2>3. /\ Stored(k, p) \in Row /\ Stored(k, p).number = n
        /\ Stored(k, p).text = p.text /\ Stored(k, p).link = p.link
        /\ Stored(k, p).markup = p.markup
    BY <1>0, <2>1, <2>2 DEF Row
  <2> QED
    BY <1>0, <1>1, <2>2, <2>3 DEF CleanRow, Presentable
<1> QED
  BY <1>2, <1>3, <1>4 DEF Kind

LEMMA RowsAreCleanRows ==
    ASSUME kind \in Kind, NEW row \in Rows
    PROVE  CleanRow(kind, row)
<1>1. PICK f \in Forms(kind) : ~Refused(kind, Payload(kind, f))
                               /\ row = Stored(kind, Payload(kind, f))
  BY DEF Rows
<1> QED
  BY <1>1, FormsAreFillable, PayloadIsPresentable, StoredIsClean

-----------------------------------------------------------------------------
(* The inductive invariant.                                                 *)

\* A month is taken once.
MonthsApart(t) ==
    kind = "collectibles" =>
        \A i, j \in Id : i # j /\ t[i] # NoRow /\ t[j] # NoRow => t[i].number # t[j].number

TableInv ==
    /\ kind \in Kind /\ rank \in {5, HighTrustRank}
    /\ table \in Table /\ version \in Nat /\ used \subseteq Id
    /\ \A i \in Id : table[i] # NoRow => CleanRow(kind, table[i])
    /\ MonthsApart(table)

\* A list as it is answered: a form can be filled from any row of it.
Plain(rows) == rows \in Table /\ \A i \in Id : rows[i] # NoRow => Fillable(kind, rows[i])

\* An answer on its way is no older than the list, nor than what was acknowledged.
QueryInv ==
    /\ list \in List /\ Plain(list.rows) /\ list.at <= version
    /\ ~list.loaded => list.at = 0
    /\ list.at = version => UpToDate(list.rows)
    /\ fetch \in Fetch /\ Plain(fetch.rows) /\ fetch.at <= version
    /\ fetch.at = version => UpToDate(fetch.rows)
    /\ fetch.stage = "idle" => fetch = Idle
    /\ fetch.stage = "read" => fetch.at >= list.at /\ (fetch.at >= acked \/ overlooked)
    /\ invalid \in BOOLEAN /\ failed \in BOOLEAN /\ overlooked \in BOOLEAN
    /\ acked \in Nat /\ acked <= version
    /\ CatchesUp

PageInv ==
    /\ screen \in {"away", "list", "create", "edit"}
    /\ editing \in Id \cup {NoId} /\ filled \in Id \cup {NoId}
    /\ Fillable(kind, form)
    /\ screen = "edit" => editing \in Id /\ filled = editing
    /\ screen = "create" => editing = NoId /\ filled = NoId

GoodCall(c, n) ==
    /\ c \in Call /\ c.at <= n
    /\ c.op # "create" => c.id \in Id
    /\ c.op = "update" => c.filled = c.id
    /\ c.op = "create" => c.filled = NoId /\ c.id = NoId
    /\ c.op # "delete" => Presentable(kind, c.payload)
    /\ c.mine => screen # "away"

CallsInv == \A c \in calls : GoodCall(c, version)

IInv == TableInv /\ QueryInv /\ PageInv /\ CallsInv

LEMMA NoRowsIsPlain == Plain(NoRows)
BY DEF Plain, NoRows, Table

LEMMA InitHolds == Init => IInv
<1> SUFFICES ASSUME Init PROVE IInv
  OBVIOUS
<1>1. kind \in Kind /\ rank \in {5, HighTrustRank}
  BY DEF Init, HighTrustRank
<1>2. TableInv
  <2>1. PICK i \in Id, row \in Rows :
            used = {i} /\ table = [NoRows EXCEPT ![i] = row]
    BY DEF Init
  <2>2. CleanRow(kind, row) /\ row \in Row
    BY <1>1, RowsAreCleanRows DEF CleanRow, Presentable
  <2>3. table \in Table /\ table[i] = row /\ \A j \in Id \ {i} : table[j] = NoRow
    BY <2>1, <2>2 DEF NoRows, Table
  <2>4. version \in Nat
    BY ContentAssumption DEF Init
  <2> QED
    BY <1>1, <2>1, <2>2, <2>3, <2>4 DEF TableInv, MonthsApart
<1>3. QueryInv
  <2>1. /\ version = 0 /\ acked = 0 /\ overlooked = FALSE /\ invalid = FALSE /\ failed = FALSE
        /\ list = [loaded |-> FALSE, rows |-> NoRows, at |-> 0] /\ fetch = Idle
    BY DEF Init
  <2>0. 0 \in Nat
    BY ContentAssumption
  <2>2. 0 \in Nat /\ NoRows \in Table
    BY <2>0, NoRowsIsPlain DEF Plain
  <2>3. list \in List /\ list.at = 0 /\ list.rows = NoRows /\ ~list.loaded
    BY <2>1, <2>2 DEF List
  <2>4. fetch \in Fetch /\ fetch.at = 0 /\ fetch.rows = NoRows /\ fetch.stage = "idle"
    BY <2>1, <2>2 DEF Fetch, Idle
  <2>5. /\ list.at <= version /\ fetch.at <= version /\ acked <= version /\ list.at >= acked
        /\ acked \in Nat
    BY <2>0, <2>1, <2>3, <2>4
  <2>6. /\ Plain(list.rows) /\ Plain(fetch.rows)
        /\ UpToDate(list.rows) /\ UpToDate(fetch.rows)
    BY <2>3, <2>4, NoRowsIsPlain DEF UpToDate
  <2>7. invalid \in BOOLEAN /\ failed \in BOOLEAN /\ overlooked \in BOOLEAN
    BY <2>1
  <2> QED
    BY <2>1, <2>3, <2>4, <2>5, <2>6, <2>7 DEF QueryInv, CatchesUp
<1>4. PageInv
  BY <1>1, BlankIsFillable DEF Init, PageInv
<1>5. CallsInv
  BY DEF Init, CallsInv
<1> QED
  BY <1>2, <1>3, <1>4, <1>5 DEF IInv

-----------------------------------------------------------------------------
(* What each part rests on.                                                 *)

LEMMA TableKept ==
    ASSUME TableInv, UNCHANGED <<operator, server>>
    PROVE  TableInv'
<1>1. UNCHANGED <<kind, rank, table, version, used>>
  BY DEF operator, server
<1> QED
  BY <1>1 DEF TableInv, MonthsApart

LEMMA PlainKept ==
    ASSUME UNCHANGED kind, NEW rows, Plain(rows)
    PROVE  Plain(rows)'
BY DEF Plain

\* The table's rows are what they were.
LEMMA UpToDateKept ==
    ASSUME UNCHANGED <<kind, table>>, NEW rows, UpToDate(rows)
    PROVE  UpToDate(rows)'
BY DEF UpToDate, Shown, Present, ListOf

\* Writes elsewhere only make the list older.
LEMMA QueryKept ==
    ASSUME QueryInv, UNCHANGED <<kind, query, ghosts>>, screen = "away" => screen' = "away",
           version \in Nat, version' \in Nat,
           UNCHANGED <<table, version>> \/ version' > version
    PROVE  QueryInv'
<1>1. UNCHANGED <<list, invalid, failed, fetch, acked, overlooked>>
  BY DEF query, ghosts
<1>2. list.at \in Nat /\ fetch.at \in Nat /\ acked \in Nat
  BY DEF QueryInv, List, Fetch
<1>3. list.at <= version' /\ fetch.at <= version' /\ acked <= version'
  BY <1>2 DEF QueryInv
<1>4. Plain(list.rows)' /\ Plain(fetch.rows)'
  BY <1>1, PlainKept DEF QueryInv
<1>5. /\ list'.at = version' => UpToDate(list.rows)'
      /\ fetch'.at = version' => UpToDate(fetch.rows)'
  <2>1. CASE UNCHANGED <<table, version>>
    BY <1>1, <2>1, UpToDateKept DEF QueryInv
  <2>2. CASE version' > version
    BY <1>1, <1>2, <2>2 DEF QueryInv
  <2> QED
    BY <2>1, <2>2
<1> QED
  BY <1>1, <1>3, <1>4, <1>5 DEF QueryInv, CatchesUp

LEMMA PageKept ==
    ASSUME PageInv, UNCHANGED <<operator, page>>
    PROVE  PageInv'
BY DEF PageInv, operator, page, Fillable

LEMMA CallKept ==
    ASSUME NEW c, NEW n \in Nat, NEW m \in Nat, m >= n, GoodCall(c, n)
    PROVE  GoodCall(c, m)
<1>1. c.at \in Nat
  BY DEF GoodCall, Call
<1>2. c.at <= m
  BY <1>1, ContentAssumption DEF GoodCall
<1> QED
  BY <1>2 DEF GoodCall

LEMMA CallsKept ==
    ASSUME CallsInv, UNCHANGED <<kind, version>>, calls' \subseteq calls,
           screen # "away" => screen' # "away"
    PROVE  CallsInv'
BY DEF CallsInv, GoodCall

LEMMA Bounds ==
    ASSUME TableInv, QueryInv
    PROVE  /\ version \in Nat /\ list.at \in Nat /\ fetch.at \in Nat
           /\ acked \in Nat /\ 0 \in Nat
           /\ kind \in Kind
BY DEF TableInv, QueryInv, List, Fetch

-----------------------------------------------------------------------------
(* The list and its query.                                                  *)

LEMMA AskedIsFetch ==
    /\ Asked \in Fetch /\ Asked.stage = "asked" /\ Asked.at = 0 /\ Asked.rows = NoRows
    /\ Idle \in Fetch /\ Idle.stage = "idle" /\ Idle.at = 0 /\ Idle.rows = NoRows
<1>1. NoRows \in Table
  BY NoRowsIsPlain DEF Plain
<1> QED
  BY <1>1 DEF Asked, Idle, Fetch

\* A fetch that has read nothing.
LEMMA EmptyFetch ==
    ASSUME fetch' \in {Asked, Idle}
    PROVE  /\ fetch' \in Fetch /\ fetch'.stage \in {"asked", "idle"} /\ fetch'.at = 0
           /\ Plain(fetch.rows)' /\ UpToDate(fetch.rows)'
<1>1. /\ fetch' \in Fetch /\ fetch'.stage \in {"asked", "idle"} /\ fetch'.at = 0
      /\ fetch'.rows = NoRows
  BY AskedIsFetch
<1>2. Plain(NoRows)' /\ NoRows' = NoRows
  BY DEF Plain, NoRows, Table
<1> QED
  BY <1>1, <1>2 DEF UpToDate, Plain

\* What there is of the query, when the list stays and the table is left alone.
LEMMA ListStays ==
    ASSUME QueryInv, UNCHANGED <<kind, table, version, list>>
    PROVE  Plain(list.rows)' /\ (list'.at = version' => UpToDate(list.rows)')
BY PlainKept, UpToDateKept DEF QueryInv

LEMMA FetchStays ==
    ASSUME QueryInv, UNCHANGED <<kind, table, version, fetch>>
    PROVE  Plain(fetch.rows)' /\ (fetch'.at = version' => UpToDate(fetch.rows)')
BY PlainKept, UpToDateKept DEF QueryInv

\* Asking anew, with nothing else touched.
LEMMA AskedAnew ==
    ASSUME QueryInv, UNCHANGED <<kind, table, list, failed, overlooked, version>>, fetch' = Asked,
           invalid' \in BOOLEAN, acked' \in Nat, acked' <= version, version \in Nat
    PROVE  QueryInv'
<1>1. /\ fetch' \in Fetch /\ fetch'.stage = "asked" /\ fetch'.at = 0
      /\ Plain(fetch.rows)' /\ UpToDate(fetch.rows)'
  BY AskedIsFetch, EmptyFetch
<1>2. fetch'.at <= version
  BY <1>1
<1> QED
  BY <1>1, <1>2, ListStays DEF QueryInv, CatchesUp

LEMMA OpenPageKeeps ==
    ASSUME TableInv, QueryInv, OpenPage
    PROVE  QueryInv'
<1>0. UNCHANGED <<kind, table, list, invalid, failed, overlooked, version, acked>>
      /\ screen = "away" /\ screen' = "list"
  BY DEF OpenPage, operator, server, ghosts
<1>1. CASE fetch' = Asked
  BY <1>0, <1>1, Bounds, AskedAnew DEF QueryInv
<1>2. CASE fetch' = fetch /\ fetch # Idle
  <2>1. fetch.stage \in {"asked", "read"}
    BY <1>2 DEF QueryInv, Fetch
  <2>2. CatchesUp'
    BY <1>0, <1>2, <2>1 DEF QueryInv, CatchesUp
  <2> QED
    BY <1>0, <1>2, <2>2, ListStays, FetchStays DEF QueryInv
<1>3. CASE fetch' = fetch /\ ~invalid
  <2>1. CatchesUp'
    BY <1>0, <1>3 DEF QueryInv, CatchesUp
  <2> QED
    BY <1>0, <1>3, <2>1, ListStays, FetchStays DEF QueryInv
<1> QED
  BY <1>1, <1>2, <1>3 DEF OpenPage

LEMMA ListedIsPlain ==
    ASSUME TableInv, NEW ids \in SUBSET Id, ids \subseteq Present
    PROVE  Plain(ListOf(ids))
<1>1. \A i \in ids : CleanRow(kind, table[i]) /\ table[i] \in Row
  BY DEF TableInv, Present, CleanRow
<1>2. ASSUME NEW row \in Row, CleanRow(kind, row)
      PROVE  Listed(kind, row) \in Row /\ Fillable(kind, Listed(kind, row))
  <2> DEFINE n == IF kind \in {"news", "collectibles"} THEN Unsigned(row.number) ELSE row.number
  <2>1. Listed(kind, row) = [row EXCEPT !.markup = "", !.number = n]
    BY DEF Listed
  <2>2. n \in Int /\ (kind \in Ordered => n = row.number)
    <3>1. row.number \in Int
      BY DEF Row
    <3>2. Unsigned(row.number) \in Int
      BY <3>1, HalfIsLarge DEF Unsigned
    <3> QED
      BY <3>1, <3>2 DEF Ordered
  <2> HIDE DEF n
  <2>3. "" \in Markup
    BY PagesAssumption, Zenon
  <2>4. /\ Listed(kind, row) \in Row /\ Listed(kind, row).markup = ""
        /\ Listed(kind, row).number = n
    BY <2>1, <2>2, <2>3 DEF Row
  <2> QED
    BY <1>2, <2>2, <2>4 DEF Fillable, CleanRow, CleanOrder, Known
<1> QED
  BY <1>1, <1>2 DEF Plain, Table, ListOf

LEMMA ServeListKeeps ==
    ASSUME TableInv, QueryInv, ServeList
    PROVE  QueryInv'
<1>0. UNCHANGED <<kind, table, list, invalid, failed, overlooked, version, acked>>
  BY DEF ServeList, operator, server, ghosts
<1>1. PICK ids \in SUBSET Id :
          /\ ids = {} \/ Shown(ids)
          /\ fetch' = [stage |-> "read", at |-> version, rows |-> ListOf(ids)]
  BY DEF ServeList
<1> DEFINE rows == ListOf(ids)
<1>2. Plain(rows) /\ rows \in Table
  BY <1>1, ListedIsPlain DEF Plain, Shown
<1>3. UpToDate(rows)
  BY <1>1 DEF UpToDate, ListOf, NoRows
<1>4. fetch' = [stage |-> "read", at |-> version, rows |-> rows]
  BY <1>1
<1> HIDE DEF rows
<1>5. /\ fetch' \in Fetch /\ fetch'.stage = "read" /\ fetch'.at = version
      /\ fetch'.rows = rows
  BY <1>2, <1>4, Bounds DEF Fetch
<1>6. version >= list.at /\ version >= acked /\ version <= version
  BY Bounds DEF QueryInv
<1>7. Plain(rows)' /\ UpToDate(rows)' /\ rows' = rows
  BY <1>0, <1>2, <1>3, PlainKept, UpToDateKept DEF rows, ListOf
<1>8. CatchesUp'
  BY <1>0, <1>5, <1>6 DEF CatchesUp
<1> QED
  BY <1>0, <1>5, <1>6, <1>7, <1>8, ListStays DEF QueryInv

LEMMA ListArrivesKeeps ==
    ASSUME TableInv, QueryInv, ListArrives
    PROVE  QueryInv'
<1>0. UNCHANGED <<kind, table, overlooked, version, acked>> /\ invalid' = FALSE /\ failed' = FALSE
      /\ fetch.stage = "read" /\ fetch' = Idle
      /\ list' = [loaded |-> TRUE, rows |-> fetch.rows, at |-> fetch.at]
  BY DEF ListArrives, operator, server, ghosts
<1>1. /\ list' \in List /\ list'.loaded /\ list'.rows = fetch.rows /\ list'.at = fetch.at
  BY <1>0 DEF QueryInv, List, Fetch
<1>2. /\ fetch' \in Fetch /\ fetch'.stage = "idle" /\ fetch'.at = 0
      /\ Plain(fetch.rows)' /\ UpToDate(fetch.rows)'
  BY <1>0, AskedIsFetch, EmptyFetch
<1>3. 0 <= version /\ fetch.at <= version
  BY Bounds DEF QueryInv
<1>4. CatchesUp'
  BY <1>0, <1>1 DEF QueryInv, CatchesUp
<1>5. Plain(list.rows)' /\ (list'.at = version' => UpToDate(list.rows)')
  BY <1>0, <1>1, PlainKept, UpToDateKept DEF QueryInv
<1> QED
  BY <1>0, <1>1, <1>2, <1>3, <1>4, <1>5 DEF QueryInv

LEMMA FetchFailsKeeps ==
    ASSUME TableInv, QueryInv, FetchFails
    PROVE  QueryInv'
<1>0. UNCHANGED <<kind, table, list, invalid, overlooked, version, acked>>
  BY DEF FetchFails, operator, server, ghosts
<1>1. CASE fetch' = Asked /\ UNCHANGED failed
  BY <1>0, <1>1, Bounds, AskedAnew DEF QueryInv
<1>2. CASE fetch' = Idle /\ failed' = TRUE
  <2>1. /\ fetch' \in Fetch /\ fetch'.stage = "idle" /\ fetch'.at = 0
        /\ Plain(fetch.rows)' /\ UpToDate(fetch.rows)'
    BY <1>2, AskedIsFetch, EmptyFetch
  <2>2. 0 <= version
    BY Bounds
  <2> QED
    BY <1>0, <1>2, <2>1, <2>2, ListStays DEF QueryInv, CatchesUp
<1> QED
  BY <1>1, <1>2 DEF FetchFails

\* The acknowledgement of a write: the list is fetched anew, marked, or known to be behind.
LEMMA AcknowledgedKeepsList ==
    ASSUME TableInv, QueryInv, CallsInv, NEW c \in calls, Acknowledged(c)
    PROVE  QueryInv'
<1>0. /\ UNCHANGED <<kind, table, list, failed, version>> /\ invalid' = TRUE
      /\ acked' = (IF c.at > acked THEN c.at ELSE acked)
      /\ overlooked' =
            (overlooked \/ (fetch.stage = "read" /\ fetch.at < c.at
                            /\ (screen = "away" \/ ~list.loaded)))
      /\ fetch' = IF screen = "away" \/ (fetch # Idle /\ ~list.loaded) THEN fetch ELSE Asked
  BY DEF Acknowledged, operator, server, Refetched
<1>1. screen = "away" => screen' = "away"
  <2>1. c.mine => screen # "away"
    BY DEF CallsInv, GoodCall
  <2> QED
    BY <2>1 DEF Acknowledged, page
<1>2. c.at \in Nat /\ c.at <= version
  BY DEF CallsInv, GoodCall, Call
<1>3. acked' \in Nat /\ acked' <= version
  BY <1>0, <1>2, Bounds DEF QueryInv
<1> DEFINE missed == fetch.stage = "read" /\ fetch.at < c.at
                         /\ (screen = "away" \/ ~list.loaded)
<1>4. overlooked' \in BOOLEAN /\ (overlooked \/ missed => overlooked')
  <2>1. overlooked \in BOOLEAN /\ missed \in BOOLEAN
    BY DEF QueryInv
  <2> QED
    BY <1>0, <2>1, Zenon
<1>5. ASSUME fetch' = Asked PROVE QueryInv'
  <2>1. /\ fetch' \in Fetch /\ fetch'.stage = "asked" /\ fetch'.at = 0
        /\ Plain(fetch.rows)' /\ UpToDate(fetch.rows)'
    BY <1>5, AskedIsFetch, EmptyFetch
  <2>2. 0 <= version
    BY Bounds
  <2> QED
    BY <1>0, <1>3, <1>4, <2>1, <2>2, ListStays DEF QueryInv, CatchesUp
<1>6. ASSUME fetch' = fetch, screen = "away" \/ (fetch # Idle /\ ~list.loaded)
      PROVE  QueryInv'
  <2>1. fetch.stage = "read" => fetch.at >= acked' \/ overlooked'
    <3> SUFFICES ASSUME fetch.stage = "read", ~overlooked' PROVE fetch.at >= acked'
      OBVIOUS
    <3>1. fetch.at >= acked
      BY <1>4 DEF QueryInv
    <3>2. ~(fetch.at < c.at)
      BY <1>4, <1>6
    <3> QED
      BY <1>0, <1>2, <3>1, <3>2, Bounds
  <2>2. CatchesUp'
    <3>1. CASE screen = "away"
      BY <1>0, <1>1, <3>1 DEF CatchesUp
    <3>2. CASE fetch # Idle
      <4>1. fetch.stage \in {"asked", "read"}
        BY <3>2 DEF QueryInv, Fetch
      <4> QED
        BY <1>6, <2>1, <4>1 DEF CatchesUp
    <3> QED
      BY <1>6, <3>1, <3>2
  <2> QED
    BY <1>0, <1>3, <1>4, <1>6, <2>1, <2>2, ListStays, FetchStays DEF QueryInv
<1> QED
  BY <1>0, <1>5, <1>6

-----------------------------------------------------------------------------
(* The form.                                                                *)

LEMMA ClosedIsFine ==
    ASSUME TableInv, UNCHANGED kind, screen' \in {"away", "list"}, editing' = NoId,
           form' = Blank(kind), filled' = NoId
    PROVE  PageInv'
BY BlankIsFillable DEF TableInv, PageInv, Fillable

LEMMA StartCreateKeeps ==
    ASSUME TableInv, StartCreate
    PROVE  PageInv'
BY BlankIsFillable DEF TableInv, StartCreate, FormEmptied, PageInv, Fillable, operator

LEMMA StartEditKeeps ==
    ASSUME QueryInv, NEW i \in Id, StartEdit(i)
    PROVE  PageInv'
<1>1. Fillable(kind, list.rows[i])
  BY DEF StartEdit, QueryInv, Plain
<1> QED
  BY <1>1 DEF StartEdit, PageInv, Fillable, operator

LEMMA TypeKeeps ==
    ASSUME TableInv, PageInv, Type
    PROVE  PageInv'
<1>1. PICK typed \in Forms(kind) : form' = [typed EXCEPT !.advanced = form.advanced]
  BY DEF Type
<1>2. Fillable(kind, typed)
  BY FormsAreFillable DEF TableInv
<1>3. Fillable(kind, form')
  BY <1>1, <1>2 DEF PageInv, Fillable, Row
<1> QED
  BY <1>3 DEF Type, PageInv, Fillable, operator

-----------------------------------------------------------------------------
(* The calls.                                                               *)

LEMMA SendKeeps ==
    ASSUME TableInv, CallsInv, screen # "away",
           NEW op \in {"create", "update", "delete"}, NEW i \in Id \cup {NoId},
           NEW payload \in Row, NEW from \in Id \cup {NoId}, Send(op, i, payload, from),
           op = "update" => from = i,
           op # "create" => i \in Id,
           op = "create" => from = NoId /\ i = NoId,
           op # "delete" => Presentable(kind, payload)
    PROVE  CallsInv'
<1> DEFINE c == [op |-> op, id |-> i, payload |-> payload, filled |-> from,
                 stage |-> "sent", mine |-> TRUE, at |-> 0]
<1>1. calls' = calls \cup {c}
  BY DEF Send
<1>2. UNCHANGED <<kind, version, screen>>
  BY DEF Send, operator, server, page
<1>3. 0 \in Nat /\ 0 <= version
  BY ContentAssumption DEF TableInv
<1>4. /\ c \in Call /\ c.at = 0 /\ c.op = op /\ c.id = i /\ c.filled = from
      /\ c.payload = payload
  BY <1>3 DEF Call
<1> HIDE DEF c
<1>5. GoodCall(c, version)
  BY <1>3, <1>4 DEF GoodCall
<1> QED
  BY <1>1, <1>2, <1>5 DEF CallsInv, GoodCall

LEMMA SubmitKeeps ==
    ASSUME TableInv, PageInv, CallsInv, Submit
    PROVE  CallsInv'
<1>1. screen \in {"create", "edit"} /\ kind \in Kind
  BY DEF Submit, TableInv
<1>2. Presentable(kind, Payload(kind, form)) /\ Payload(kind, form) \in Row
  BY <1>1, PayloadIsPresentable DEF PageInv, Presentable
<1> DEFINE op == IF screen = "edit" THEN "update" ELSE "create"
<1>3. op \in {"create", "update"} /\ (op = "update" <=> screen = "edit")
  OBVIOUS
<1>4. Send(op, editing, Payload(kind, form), filled)
  BY DEF Submit
<1> HIDE DEF op
<1>5. /\ editing \in Id \cup {NoId} /\ filled \in Id \cup {NoId}
      /\ op = "update" => filled = editing /\ editing \in Id
      /\ op = "create" => filled = NoId /\ editing = NoId
  BY <1>1, <1>3 DEF PageInv
<1> QED
  BY <1>1, <1>2, <1>3, <1>4, <1>5, SendKeeps

LEMMA DeleteKeeps ==
    ASSUME TableInv, CallsInv, NEW i \in Id, Delete(i)
    PROVE  CallsInv'
<1>1. Send("delete", i, Blank(kind), NoId) /\ screen = "list"
  BY DEF Delete
<1>2. Blank(kind) \in Row
  BY BlankIsFillable DEF TableInv, Fillable
<1> QED
  BY <1>1, <1>2, SendKeeps

LEMMA LeavePageKeepsCalls ==
    ASSUME CallsInv, LeavePage
    PROVE  CallsInv'
<1>1. UNCHANGED <<kind, version>> /\ calls' = {[c EXCEPT !.mine = FALSE] : c \in calls}
  BY DEF LeavePage, operator, server
<1>2. \A c \in calls : GoodCall(c, version)
  BY DEF CallsInv
<1>3. ASSUME NEW d \in calls' PROVE GoodCall(d, version)'
  <2>1. PICK c \in calls : d = [c EXCEPT !.mine = FALSE]
    BY <1>1
  <2>2. GoodCall(c, version)
    BY <1>2
  <2>3. /\ d \in Call /\ d.at = c.at /\ d.op = c.op /\ d.filled = c.filled /\ d.id = c.id
        /\ d.payload = c.payload /\ d.mine = FALSE
    BY <2>1, <2>2 DEF GoodCall, Call
  <2> QED
    BY <1>1, <2>2, <2>3 DEF GoodCall
<1> QED
  BY <1>3 DEF CallsInv

-----------------------------------------------------------------------------
(* Writes to the table.                                                     *)

LEMMA PutKeeps ==
    ASSUME TableInv, NEW i \in Id, NEW row, row = NoRow \/ CleanRow(kind, row),
           kind = "collectibles" /\ row # NoRow =>
              \A j \in Id \ {i} : table[j] # NoRow => table[j].number # row.number,
           table' = [table EXCEPT ![i] = row], UNCHANGED operator,
           version' \in Nat, used' \subseteq Id
    PROVE  TableInv'
<1>1. UNCHANGED <<kind, rank>>
  BY DEF operator
<1>2. row \in Row \cup {NoRow}
  BY DEF CleanRow, Presentable
<1>3. table' \in Table /\ table'[i] = row /\ \A j \in Id \ {i} : table'[j] = table[j]
  BY <1>2 DEF TableInv, Table
<1>4. ASSUME NEW j \in Id, table'[j] # NoRow PROVE CleanRow(kind, table'[j])
  BY <1>3, <1>4 DEF TableInv
<1>5. MonthsApart(table')
  BY <1>3 DEF TableInv, MonthsApart
<1>6. \A j \in Id : table'[j] # NoRow => CleanRow(kind', table'[j])
  BY <1>1, <1>4
<1> QED
  BY <1>1, <1>3, <1>5, <1>6 DEF TableInv, MonthsApart

\* What a call writes, and where.
LEMMA WritesOneRow ==
    ASSUME TableInv, CallsInv, NEW c \in calls, ServeCall(c)
    PROVE  \E i \in Id : \E row \in {NoRow, Stored(kind, c.payload)} :
              /\ table' = [table EXCEPT ![i] = row]
              /\ used' \subseteq Id
              /\ row # NoRow => /\ CleanRow(kind, row) /\ row.markup = c.payload.markup
                               /\ c.op # "delete" /\ Permitted(c)
              /\ kind = "collectibles" /\ row # NoRow =>
                    \A j \in Id \ {i} : table[j] # NoRow => table[j].number # row.number
<1> DEFINE new == Stored(kind, c.payload)
<1>1. GoodCall(c, version) /\ kind \in Kind /\ used \subseteq Id /\ c.id \in Id \cup {NoId}
  BY DEF CallsInv, TableInv, GoodCall, Call
<1>2. c.op # "delete" /\ Acceptable(c) =>
          /\ CleanRow(kind, new) /\ new.markup = c.payload.markup /\ Permitted(c)
          /\ MonthFree(c)
  BY <1>1, StoredIsClean DEF GoodCall, Acceptable
<1>3. kind = "collectibles" => new.number = c.payload.number
  BY DEF Stored
<1>4. CASE c.op = "create" /\ Acceptable(c)
           /\ \E i \in Id \ used : table' = [table EXCEPT ![i] = new] /\ used' = used \cup {i}
  <2>1. PICK i \in Id \ used : table' = [table EXCEPT ![i] = new] /\ used' = used \cup {i}
    BY <1>4
  <2>2. c.id \notin Id
    BY <1>1, <1>4, ContentAssumption DEF GoodCall
  <2>3. kind = "collectibles" =>
            \A j \in Id \ {i} : table[j] # NoRow => table[j].number # new.number
    BY <1>2, <1>3, <1>4, <2>2 DEF MonthFree
  <2>4. used' \subseteq Id /\ i \in Id
    BY <1>1, <2>1
  <2> HIDE DEF new
  <2> QED
    BY <1>2, <1>4, <2>1, <2>3, <2>4 DEF new
<1>5. CASE c.op = "update" /\ Acceptable(c)
           /\ table' = [table EXCEPT ![c.id] = new] /\ UNCHANGED used
  <2>1. c.id \in Id
    BY <1>1, <1>5 DEF GoodCall
  <2>2. kind = "collectibles" =>
            \A j \in Id \ {c.id} : table[j] # NoRow => table[j].number # new.number
    BY <1>2, <1>3, <1>5 DEF MonthFree
  <2> HIDE DEF new
  <2> QED
    BY <1>1, <1>2, <1>5, <2>1, <2>2 DEF new
<1>6. CASE c.op = "delete" /\ table[c.id] # NoRow
           /\ table' = [table EXCEPT ![c.id] = NoRow] /\ UNCHANGED used
  <2>1. c.id \in Id
    BY <1>1, <1>6 DEF GoodCall
  <2> QED
    BY <1>1, <1>6, <2>1
<1> QED
  BY <1>4, <1>5, <1>6 DEF ServeCall, Written

LEMMA ServeCallKeepsTable ==
    ASSUME TableInv, CallsInv, NEW c \in calls, ServeCall(c)
    PROVE  /\ TableInv' /\ version' \in Nat /\ version' = version + 1
<1>1. version' \in Nat /\ version' = version + 1 /\ UNCHANGED operator
  BY ContentAssumption DEF ServeCall, TableInv
<1>2. PICK i \in Id, row \in {NoRow, Stored(kind, c.payload)} :
              /\ table' = [table EXCEPT ![i] = row]
              /\ used' \subseteq Id
              /\ row # NoRow => CleanRow(kind, row)
              /\ kind = "collectibles" /\ row # NoRow =>
                    \A j \in Id \ {i} : table[j] # NoRow => table[j].number # row.number
  BY WritesOneRow
<1> QED
  BY <1>1, <1>2, PutKeeps

LEMMA ServeCallKeepsCalls ==
    ASSUME TableInv, CallsInv, NEW c \in calls, ServeCall(c)
    PROVE  CallsInv'
<1> DEFINE d == [c EXCEPT !.stage = "ok", !.at = version + 1]
<1>1. /\ calls' = (calls \ {c}) \cup {d} /\ version' = version + 1
      /\ UNCHANGED <<kind, screen>>
  BY DEF ServeCall, operator, page
<1>2. version \in Nat /\ version' \in Nat /\ version' >= version
  BY <1>1, ServeCallKeepsTable DEF TableInv
<1>3. GoodCall(c, version)
  BY DEF CallsInv
<1>4. /\ d \in Call /\ d.at = version' /\ d.op = c.op /\ d.filled = c.filled /\ d.id = c.id
      /\ d.payload = c.payload /\ d.mine = c.mine
  BY <1>1, <1>2, <1>3 DEF GoodCall, Call
<1> HIDE DEF d
<1>5. GoodCall(d, version')
  BY <1>2, <1>3, <1>4 DEF GoodCall
<1>6. \A e \in calls : GoodCall(e, version')
  BY <1>2, CallKept DEF CallsInv
<1>7. \A e \in calls' : GoodCall(e, version')
  BY <1>1, <1>5, <1>6
<1> QED
  BY <1>1, <1>7 DEF CallsInv, GoodCall

LEMMA OtherOperatorKeeps ==
    ASSUME TableInv, CallsInv, OtherOperator
    PROVE  TableInv' /\ CallsInv' /\ version' \in Nat /\ version' = version + 1
<1>1. version' \in Nat /\ version' = version + 1 /\ UNCHANGED <<operator, page, calls>>
  BY ContentAssumption DEF OtherOperator, TableInv
<1>2. PICK i \in Id, row \in Rows \cup {NoRow} :
          /\ kind = "collectibles" /\ row # NoRow =>
                \A j \in Id \ {i} : table[j] # NoRow => table[j].number # row.number
          /\ table' = [table EXCEPT ![i] = row]
          /\ used' = used \cup {i}
  BY DEF OtherOperator
<1>3. row = NoRow \/ CleanRow(kind, row)
  BY RowsAreCleanRows DEF TableInv
<1>4. used' \subseteq Id
  BY <1>2 DEF TableInv
<1>5. TableInv'
  BY <1>1, <1>2, <1>3, <1>4, PutKeeps
<1>6. version \in Nat /\ version' >= version
  BY <1>1 DEF TableInv
<1>7. \A e \in calls : GoodCall(e, version')
  BY <1>1, <1>6, CallKept DEF CallsInv
<1>8. CallsInv'
  BY <1>1, <1>7 DEF CallsInv, GoodCall, operator, page
<1> QED
  BY <1>1, <1>5, <1>8

-----------------------------------------------------------------------------
(* Every step.                                                              *)

\* The steps of the list touch nothing else.
LEMMA QueryStepKeeps ==
    ASSUME IInv, OpenPage \/ ServeList \/ ListArrives \/ FetchFails
    PROVE  IInv'
<1>0. TableInv /\ QueryInv /\ PageInv /\ CallsInv
  BY DEF IInv
<1>1. UNCHANGED <<operator, server, calls>>
  BY DEF OpenPage, ServeList, ListArrives, FetchFails
<1>2. TableInv'
  BY <1>0, <1>1, TableKept
<1>3. QueryInv'
  BY <1>0, OpenPageKeeps, ServeListKeeps, ListArrivesKeeps, FetchFailsKeeps
<1>4. UNCHANGED <<kind, version>>
  BY <1>1 DEF operator, server
<1>5. PageInv' /\ (screen # "away" => screen' # "away")
  <2>1. CASE OpenPage
    BY <1>0, <1>4, <2>1, ClosedIsFine DEF OpenPage, Empty
  <2>2. CASE ServeList \/ ListArrives \/ FetchFails
    <3>1. UNCHANGED page
      BY <2>2 DEF ServeList, ListArrives, FetchFails
    <3> QED
      BY <1>0, <1>1, <3>1, PageKept DEF page
  <2> QED
    BY <2>1, <2>2
<1>6. CallsInv'
  BY <1>0, <1>1, <1>4, <1>5, CallsKept
<1> QED
  BY <1>2, <1>3, <1>5, <1>6 DEF IInv

LEMMA PageStepKeeps ==
    ASSUME IInv,
           LeavePage \/ StartCreate \/ Type \/ Cancel \/ (\E i \in Id : StartEdit(i))
    PROVE  IInv'
<1>0. TableInv /\ QueryInv /\ PageInv /\ CallsInv
  BY DEF IInv
<1>1. UNCHANGED <<operator, server, query, ghosts>>
  BY DEF LeavePage, StartCreate, Type, Cancel, StartEdit
<1>2. UNCHANGED <<kind, table, version>>
  BY <1>1 DEF operator, server
<1>3. screen # "away"
  BY DEF LeavePage, StartCreate, Type, Cancel, StartEdit
<1>4. TableInv'
  BY <1>0, <1>1, TableKept
<1>5. QueryInv'
  BY <1>0, <1>1, <1>2, <1>3, Bounds, QueryKept
<1>6. PageInv'
  <2>1. CASE LeavePage
    BY <1>0, <1>2, <2>1, ClosedIsFine DEF LeavePage, Empty
  <2>2. CASE Cancel
    BY <1>0, <1>2, <2>2, ClosedIsFine DEF Cancel, Reset, FormEmptied
  <2>3. CASE StartCreate \/ Type \/ \E i \in Id : StartEdit(i)
    BY <1>0, <2>3, StartCreateKeeps, TypeKeeps, StartEditKeeps
  <2> QED
    BY <2>1, <2>2, <2>3
<1>7. CallsInv'
  <2>1. CASE LeavePage
    BY <1>0, <2>1, LeavePageKeepsCalls
  <2>2. CASE StartCreate \/ Type \/ Cancel \/ (\E i \in Id : StartEdit(i))
    <3>1. UNCHANGED calls /\ screen' # "away"
      BY <2>2 DEF StartCreate, Type, Cancel, Reset, StartEdit
    <3> QED
      BY <1>0, <1>2, <3>1, CallsKept
  <2> QED
    BY <2>1, <2>2
<1> QED
  BY <1>4, <1>5, <1>6, <1>7 DEF IInv

LEMMA CallStepKeeps ==
    ASSUME IInv,
           \/ Submit
           \/ \E i \in Id : Delete(i)
           \/ \E c \in calls : ServeCall(c) \/ Acknowledged(c) \/ Failed(c)
           \/ OtherOperator
    PROVE  IInv'
<1>0. TableInv /\ QueryInv /\ PageInv /\ CallsInv
  BY DEF IInv
<1>1. ASSUME Submit \/ \E i \in Id : Delete(i) PROVE IInv'
  <2>1. UNCHANGED <<operator, server, query, page, ghosts>>
    BY <1>1 DEF Submit, Delete, Send
  <2>2. UNCHANGED <<kind, table, version, screen>>
    BY <2>1 DEF operator, server, page
  <2>3. QueryInv'
    BY <1>0, <2>1, <2>2, Bounds, QueryKept
  <2> QED
    BY <1>0, <1>1, <2>1, <2>3, TableKept, PageKept, SubmitKeeps, DeleteKeeps DEF IInv
<1>2. ASSUME OtherOperator \/ \E c \in calls : ServeCall(c) PROVE IInv'
  <2>1. UNCHANGED <<operator, query, page, ghosts>>
    BY <1>2 DEF OtherOperator, ServeCall
  <2>2. TableInv' /\ CallsInv' /\ version' \in Nat /\ version' = version + 1
    BY <1>0, <1>2, OtherOperatorKeeps, ServeCallKeepsTable, ServeCallKeepsCalls
  <2>3. version \in Nat /\ version' > version /\ UNCHANGED <<kind, screen>>
    BY <1>0, <2>1, <2>2, Bounds DEF page, operator
  <2>4. QueryInv'
    BY <1>0, <2>1, <2>2, <2>3, QueryKept
  <2> QED
    BY <1>0, <2>1, <2>2, <2>4, PageKept DEF IInv
<1>3. ASSUME NEW c \in calls, Acknowledged(c) PROVE IInv'
  <2>1. UNCHANGED <<operator, server>> /\ calls' = calls \ {c}
    BY <1>3 DEF Acknowledged
  <2>2. UNCHANGED <<kind, version>>
    BY <2>1 DEF operator, server
  <2>3. CASE c.mine /\ c.op # "delete"
    <3>1. Reset
      BY <1>3, <2>3 DEF Acknowledged
    <3>2. PageInv' /\ screen' # "away"
      BY <1>0, <2>2, <3>1, ClosedIsFine DEF Reset, FormEmptied
    <3> QED
      BY <1>0, <1>3, <2>1, <2>2, <3>2, TableKept, AcknowledgedKeepsList, CallsKept DEF IInv
  <2>4. CASE ~(c.mine /\ c.op # "delete")
    <3>1. UNCHANGED page
      BY <1>3, <2>4 DEF Acknowledged
    <3>2. PageInv' /\ UNCHANGED screen
      BY <1>0, <2>1, <3>1, PageKept DEF page
    <3> QED
      BY <1>0, <1>3, <2>1, <2>2, <3>2, TableKept, AcknowledgedKeepsList, CallsKept DEF IInv
  <2> QED
    BY <2>3, <2>4
<1>4. ASSUME NEW c \in calls, Failed(c) PROVE IInv'
  <2>1. UNCHANGED <<operator, server, query, page, ghosts>> /\ calls' = calls \ {c}
    BY <1>4 DEF Failed
  <2>2. UNCHANGED <<kind, table, version, screen>>
    BY <2>1 DEF operator, server, page
  <2>3. QueryInv'
    BY <1>0, <2>1, <2>2, Bounds, QueryKept
  <2> QED
    BY <1>0, <2>1, <2>2, <2>3, TableKept, PageKept, CallsKept DEF IInv
<1> QED
  BY <1>1, <1>2, <1>3, <1>4

LEMMA StutterKeeps ==
    ASSUME IInv, UNCHANGED vars
    PROVE  IInv'
<1>0. TableInv /\ QueryInv /\ PageInv /\ CallsInv
  BY DEF IInv
<1>1. UNCHANGED <<operator, server, query, page, calls, ghosts>>
  BY DEF vars
<1>2. UNCHANGED <<kind, table, version, screen>>
  BY <1>1 DEF operator, server, page
<1>3. QueryInv'
  BY <1>0, <1>1, <1>2, Bounds, QueryKept
<1> QED
  BY <1>0, <1>1, <1>2, <1>3, TableKept, PageKept, CallsKept DEF IInv

LEMMA Inductive == IInv /\ [Next]_vars => IInv'
BY StutterKeeps, QueryStepKeeps, PageStepKeeps, CallStepKeeps DEF Next

LEMMA InvariantHolds == Spec => []IInv
BY InitHolds, Inductive, PTL DEF Spec

-----------------------------------------------------------------------------
(* The theorems.                                                            *)

\* Every variable keeps its type, whatever is typed, listed and stored.
THEOREM TypeCorrect == Spec => []TypeOK
<1>1. IInv => TypeOK
  BY DEF IInv, TableInv, QueryInv, PageInv, CallsInv, GoodCall, Fillable, TypeOK
<1> QED
  BY <1>1, InvariantHolds, PTL

\* After every write it was told of this browser has a list of that write or is about to,
\* or says it could not have it (useAdminMutations), whatever answers are late and whichever
\* page is open by then; and a list of the last write shows the table's rows.  Except: an
\* older answer that nothing had asked to drop (overlooked), a failed SELECT, which is
\* answered with no rows, and the news beyond the limit.
THEOREM ListsKeepUp == Spec => []ListKeepsUp
<1>1. IInv => ListKeepsUp
  BY DEF IInv, QueryInv, ListKeepsUp
<1> QED
  BY <1>1, InvariantHolds, PTL

\* No text reaches a row it was not filled in from.
THEOREM FormsStayWithTheirRow == Spec => []FormsAimAtTheirRow
<1>1. IInv => FormsAimAtTheirRow
  BY ContentAssumption DEF IInv, PageInv, CallsInv, GoodCall, FormsAimAtTheirRow
<1> QED
  BY <1>1, InvariantHolds, PTL

\* Whatever is typed, and by however many operators at once, the rows of the five tables
\* fit the public pages; an order of 2^31 or more excepted, of which 32 bits are left.
THEOREM RowsStayClean == Spec => []RowsAreClean
<1>1. IInv => RowsAreClean
  BY DEF IInv, TableInv, CleanRow, CleanOrder, Ordered, MonthsApart, RowsAreClean
<1> QED
  BY <1>1, InvariantHolds, PTL

\* A row gets raw markup from this browser only with high trust
\* (the controller's check, whatever page the payload comes from).
THEOREM MarkupIsTrusted == Spec => MarkupNeedsHighTrust
<1> DEFINE Trusted ==
      OwnWrite => \A i \in Id :
          /\ table'[i] # NoRow /\ table'[i] # table[i] /\ table'[i].markup # ""
          /\ table[i] # NoRow => table[i].markup # table'[i].markup
          => rank = HighTrustRank
<1>1. IInv /\ [Next]_vars => [Trusted]_vars
  <2> SUFFICES ASSUME IInv, [Next]_vars, calls' # calls, table' # table, NEW i \in Id,
                      table'[i] # NoRow, table'[i] # table[i], table'[i].markup # ""
               PROVE  rank = HighTrustRank
    BY DEF OwnWrite
  <2>1. PICK c \in calls : ServeCall(c)
    BY DEF Next, vars, server, OpenPage, LeavePage, ServeList, ListArrives, FetchFails,
       StartCreate, Type, Cancel, Submit, Send, StartEdit, Delete, Acknowledged, Failed,
       OtherOperator
  <2>2. TableInv /\ CallsInv /\ GoodCall(c, version)
    BY DEF IInv, CallsInv
  <2>3. PICK j \in Id, row \in {NoRow, Stored(kind, c.payload)} :
              /\ table' = [table EXCEPT ![j] = row]
              /\ row # NoRow => /\ row.markup = c.payload.markup
                               /\ c.op # "delete" /\ Permitted(c)
    BY <2>1, <2>2, WritesOneRow
  <2>4. i = j /\ table'[i] = row
    BY <2>2, <2>3 DEF TableInv, Table
  <2>5. c.payload.markup # "" /\ c.op # "delete" /\ Permitted(c)
    BY <2>3, <2>4
  <2>6. kind = "banners" /\ c.payload.advanced
    BY <2>2, <2>5 DEF GoodCall, Presentable
  <2> QED
    BY <2>5, <2>6 DEF Permitted, BannerRequiresHighTrust
<1>2. [][Trusted]_vars => MarkupNeedsHighTrust
  BY DEF MarkupNeedsHighTrust
<1> QED
  BY <1>1, <1>2, InvariantHolds, PTL DEF Spec
=============================================================================
