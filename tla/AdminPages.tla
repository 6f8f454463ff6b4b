------------------------------ MODULE AdminPages ------------------------------
(***************************************************************************)
(* The five housekeeping pages that edit a table of content: what their      *)
(* forms hold, the payload a form is submitted as, and what the server makes *)
(* of it.  A row keeps what the pages treat differently: a required text, a   *)
(* link, the number of the row (display order, time or month), and for a     *)
(* banner its raw markup and the flag that says it has some.                 *)
(***************************************************************************)
EXTENDS Integers

CONSTANTS
    Text,           \* the texts an operator can type
    Markup,         \* the markup an operator can type; "" is none
    Link,           \* the links an operator can type
    Times, Orders,  \* the times and months, and the orders, an operator can type
    Half            \* 2^31: an INT column keeps numbers from -Half to Half - 1

ASSUME PagesAssumption ==
    /\ "" \in Markup
    /\ Times \subseteq Int /\ Orders \subseteq Int
    /\ Half \in Nat \ {0, 1}

Kind == {"news", "faq", "banners", "campaigns", "collectibles"}
HighTrustRank == 7
Now == 1                  \* the server's clock
ThisMonth == 1            \* the month the browser is in

Row == [text : Text \cup {""}, link : Link \cup {"/"}, number : Int,
        markup : Markup, advanced : BOOLEAN]

Content(text, link, number, markup) ==
    [text |-> text, link |-> link, number |-> number, markup |-> markup,
     advanced |-> FALSE]

-----------------------------------------------------------------------------
(* What a page's inputs can hold.                                           *)

Inputs(texts, links, numbers, markups) ==
    [text : texts, link : links, number : numbers, markup : markups, advanced : {FALSE}]

\* A time or a month that was cleared reads 0; one before 1970 is negative.
Time == Times \cup {0}
NewsForms == Inputs(Text, {"/"}, Time, {""})
CollectibleForms == Inputs(Text, {"/"}, Time \cup {ThisMonth}, {""})

\* An order that was cleared is 0, a number like any other here.
FaqForms == Inputs(Text, {"/"}, Orders, {""})

\* The order of a banner or a campaign is parseInt(...) || 1: never 0.
Order == Orders \ {0}
BannerForms == Inputs({""}, Link, Order, Markup)
CampaignForms == Inputs(Text, Link, Order, {""})

Forms(kind) ==
    CASE kind = "news" -> NewsForms
      [] kind = "faq" -> FaqForms
      [] kind = "banners" -> BannerForms
      [] kind = "campaigns" -> CampaignForms
      [] kind = "collectibles" -> CollectibleForms

\* The form of a new row, and the form after a reset.
NewsBlank == Content("", "/", 0, "")
FaqBlank == Content("", "/", 0, "")
BannerBlank == Content("", "/", 1, "")
CampaignBlank == Content("", "/", 1, "")
CollectibleBlank == Content("", "/", ThisMonth, "")

Blank(kind) ==
    CASE kind = "news" -> NewsBlank
      [] kind = "faq" -> FaqBlank
      [] kind = "banners" -> BannerBlank
      [] kind = "campaigns" -> CampaignBlank
      [] kind = "collectibles" -> CollectibleBlank

-----------------------------------------------------------------------------
(* What a form is submitted as.                                             *)

\* (PathAsTyped: the legacy token is kept.)
PathAsTyped(link) == link
NormalisePath(link) == IF link = "%path%" THEN "/" ELSE link
AtLeastOne(order) == IF order < 1 THEN 1 ELSE order

NewsPayload(form) == [form EXCEPT !.advanced = FALSE]
FaqPayload(form) == form

\* That a banner is advanced is derived from its markup, never typed.
BannerPayload(form) ==
    [form EXCEPT !.link = NormalisePath(@),
                 !.advanced = form.markup # "",
                 !.number = AtLeastOne(@)]

CampaignPayload(form) ==
    [form EXCEPT !.link = NormalisePath(@), !.number = AtLeastOne(@)]
CollectiblePayload(form) == form

Payload(kind, form) ==
    CASE kind = "news" -> NewsPayload(form)
      [] kind = "faq" -> FaqPayload(form)
      [] kind = "banners" -> BannerPayload(form)
      [] kind = "campaigns" -> CampaignPayload(form)
      [] kind = "collectibles" -> CollectiblePayload(form)

-----------------------------------------------------------------------------
(* The server's side of a payload.                                          *)

\* An INT column refuses a time that does not fit; an order is cut to 32 bits before.
Fits(n) == n \in (-Half)..(Half - 1)
NewsRefused(p) == p.text = "" \/ ~Fits(p.number)
FaqRefused(p) == p.text = ""
CampaignRefused(p) == p.text = ""
CollectibleRefused(p) == p.text = "" \/ p.number = 0 \/ ~Fits(p.number)

Refused(kind, p) ==
    CASE kind = "news" -> NewsRefused(p)
      [] kind = "faq" -> FaqRefused(p)
      [] kind = "banners" -> FALSE
      [] kind = "campaigns" -> CampaignRefused(p)
      [] kind = "collectibles" -> CollectibleRefused(p)

\* static_cast<int32_t> of an order (of at most 63 bits) wraps it around.
Narrowed(n) == IF Fits(n) THEN n ELSE ((n + Half) % (2 * Half)) - Half

\* An article without a time is published now.
Stored(kind, p) ==
    CASE kind = "news" -> [p EXCEPT !.number = IF @ = 0 THEN Now ELSE @]
      [] kind = "collectibles" -> p
      [] OTHER -> [p EXCEPT !.number = Narrowed(@)]

BannerRequiresHighTrust(p) == p.advanced \/ p.markup = "<script"

\* What the list of the administration says of a row: no list carries markup, and a
\* time before 1970 is cast to an unsigned number, too large to be stored again.
\* (AsSent: the fields the server leaves out are left out of the row as well.)
AsSent(kind, row) == [text |-> row.text, link |-> row.link, number |-> row.number]
Unsigned(n) == IF n < 0 THEN Half - n ELSE n
Listed(kind, row) ==
    [row EXCEPT !.markup = "",
                !.number = IF kind \in {"news", "collectibles"} THEN Unsigned(@) ELSE @]
=============================================================================
