------------------------------ MODULE NewsList ------------------------------
(***************************************************************************)
(* From the body of a response to what a page shows of it.  newsFromJson     *)
(* decodes the body.  In the news list ListView.builder asks for the rows   *)
(* one after the other as they scroll into view, and a tap on a row opens   *)
(* its article.  The breaking-news strip lays out the first articles as     *)
(* cards, all in one build, anew for every position of its slider.          *)
(***************************************************************************)
EXTENDS Integers, Sequences, CardStrip

CONSTANTS
    ItemCount,      \* the list's itemCount, 19 in the code
    MaxArticles,    \* bound: articles in a body
    Shapes,         \* bound: which keys an article has, and if its date is one
    Heights,        \* bound: heights of the strip, in logical pixels
    Overscroll,     \* bound: steps a drag takes the slider past its ends
    AssertsOn,      \* a debug build: asserts are checked
    Null            \* JSON and Dart null

\* A strip is at least 20 pixels high, so that its cards have a height; how wide
\* the screen is, upright or turned on its side, sets no limit above.
ASSUME SizesAssumption ==
    /\ ItemCount \in Nat /\ MaxArticles \in Nat /\ Overscroll \in Nat
    /\ Heights \subseteq {h \in Nat : h >= 20}
    /\ AssertsOn \in BOOLEAN

\* Of the keys that Article.fromJson reads, those that something here depends on.
Keys == {"source", "title", "urlToImage", "publishedAt"}

ASSUME ShapesAssumption ==
    Shapes \subseteq [keys : SUBSET Keys, date : {"publishedAt", "garbled"}]

VARIABLES
    body,       \* the body of the response
    outcome,    \* of newsFromJson
    articles,   \* the articles it decoded
    rows,       \* the rows the list has built
    ended,      \* the item builder has returned null
    opened,     \* the article a tap opened, or Null
    page        \* where the slider stands, in steps

vars == <<body, outcome, articles, rows, ended, opened, page>>

list == <<rows, ended, opened>>

\* What the articles of a body have under a key: a value for each of them.
Texts(key) == {key} \X (1 .. MaxArticles)

\* An article as it comes: an object with the keys of its shape, and under
\* publishedAt a date or something that is none.
JsonArticle(i, shape) ==
    [key \in shape.keys |-> IF key = "publishedAt" THEN <<shape.date, i>> ELSE <<key, i>>]

\* A body is a list of articles in the service's order, or has none: it is no
\* JSON, or the object of an error (the status code is not looked at).
Bodies ==
    {Null} \cup UNION {{[i \in 1 .. n |-> JsonArticle(i, shapes[i])] :
                          shapes \in [1 .. n -> Shapes]} : n \in 0 .. MaxArticles}

\* The fields of a Dart Article, of which the title and the image may be null.
Article == [source : Texts("source"), title : Texts("title") \cup {Null},
            urlToImage : Texts("urlToImage") \cup {Null},
            publishedAt : Texts("DateTime")]

\* null is none of the values under a key.
ASSUME NullAssumption ==
    \A key \in Keys \cup {"garbled", "DateTime"} : Null \notin Texts(key)

-----------------------------------------------------------------------------
\* The index operator of a Dart map: a key that is not there reads as null.
Lookup(json, key) == IF key \in DOMAIN json THEN json[key] ELSE Null

\* Source.fromJson indexes a null, or DateTime.parse is given no date.
Throws(json) ==
    \/ Lookup(json, "source") = Null
    \/ Lookup(json, "publishedAt") \notin Texts("publishedAt")

DateTimeParse(text) == <<"DateTime", text[2]>>

\* Mutant: the date is kept as text.
ArticleFromJsonUnparsed(json) ==
    [source |-> Lookup(json, "source"), title |-> Lookup(json, "title"),
     urlToImage |-> Lookup(json, "urlToImage"),
     publishedAt |-> Lookup(json, "publishedAt")]

\* Mutant: a key is not spelled as the service spells it.
ArticleFromJsonMistyped(json) ==
    [source |-> Lookup(json, "source"), title |-> Lookup(json, "title"),
     urlToImage |-> Lookup(json, "urlToimage"),
     publishedAt |-> DateTimeParse(Lookup(json, "publishedAt"))]

ArticleFromJson(json) ==
    [source |-> Lookup(json, "source"), title |-> Lookup(json, "title"),
     urlToImage |-> Lookup(json, "urlToImage"),
     publishedAt |-> DateTimeParse(Lookup(json, "publishedAt"))]

\* A body without articles, or one article that cannot be decoded, makes
\* newsFromJson throw: the whole response is lost.
Decodable(b) == b # Null /\ \A i \in DOMAIN b : ~Throws(b[i])

NewsFromJson(b) == [i \in DOMAIN b |-> ArticleFromJson(b[i])]

-----------------------------------------------------------------------------
Decode ==
    /\ outcome = "none"
    /\ IF Decodable(body)
       THEN outcome' = "decoded" /\ articles' = NewsFromJson(body)
       ELSE outcome' = "error" /\ UNCHANGED articles
    /\ UNCHANGED <<body, list, page>>

\* The row of an article that the item builder threw for: it has no image.
ErrorRow == [urlToImage |-> Null]

\* Where asserts are checked a Text without a title throws.
Untitled(article) == AssertsOn /\ article.title = Null

RowFor(index) ==
    IF index > Len(articles) \/ Untitled(articles[index]) THEN ErrorRow ELSE articles[index]

\* Mutant: an article without image gets a row.
BuildRowAlways ==
    LET index == Len(rows) + 1 IN
    /\ outcome = "decoded" /\ ~ended /\ opened = Null
    /\ index <= ItemCount
    /\ rows' = Append(rows, RowFor(index))
    /\ UNCHANGED <<body, outcome, articles, ended, opened, page>>

\* The item builder for the next index: past the articles it throws, as it does
\* for an article without a title, and the list puts an error row there; for an
\* article without an image it returns null, which ends the list.
BuildRow ==
    LET index == Len(rows) + 1
        imageless == index <= Len(articles) /\ articles[index].urlToImage = Null
    IN
    /\ outcome = "decoded" /\ ~ended /\ opened = Null
    /\ index <= ItemCount
    /\ \/ imageless /\ ended' = TRUE /\ UNCHANGED rows
       \/ ~imageless /\ rows' = Append(rows, RowFor(index)) /\ UNCHANGED ended
    /\ UNCHANGED <<body, outcome, articles, opened, page>>

\* onTap pushes DetailedNew with the fields of the row's article.
TapRow(index) ==
    /\ opened = Null
    /\ index \in DOMAIN rows /\ rows[index] # ErrorRow
    /\ opened' = rows[index]
    /\ UNCHANGED <<body, outcome, articles, rows, ended, page>>

Return ==
    /\ opened # Null
    /\ opened' = Null
    /\ UNCHANGED <<body, outcome, articles, rows, ended, page>>

-----------------------------------------------------------------------------
\* The strip asks for an article per card: a shorter response throws, as does,
\* where asserts are checked, an article without an image (Image.network) or
\* without a title.  Each of these loses all cards.
StripThrows ==
    \/ Len(articles) < StripCards
    \/ \E i \in Card : Untitled(articles[i + 1])
    \/ AssertsOn /\ \E i \in Card : articles[i + 1].urlToImage = Null

StripDrawn == outcome = "decoded" /\ ~StripThrows

Cards == [i \in Card |-> articles[i + 1]]

Pages == - Overscroll .. Steps * (StripCards - 1) + Overscroll

\* The controller's listener rebuilds the strip for the new page.
Scroll ==
    /\ outcome = "decoded" /\ opened = Null
    /\ \E d \in {-1, 1} : page + d \in Pages /\ page' = page + d
    /\ UNCHANGED <<body, outcome, articles, list>>

Init ==
    /\ body \in Bodies
    /\ outcome = "none"
    /\ articles = <<>>
    /\ rows = <<>>
    /\ ended = FALSE
    /\ opened = Null
    /\ page = Steps * (StripCards - 1)

Next ==
    \/ Decode \/ BuildRow \/ Return \/ Scroll
    \/ \E index \in 1 .. ItemCount : TapRow(index)

Spec == Init /\ [][Next]_vars

-----------------------------------------------------------------------------
TypeOK ==
    /\ body \in Bodies
    /\ outcome \in {"none", "decoded", "error"}
    /\ articles \in Seq(Article)
    /\ rows \in Seq(Article \cup {ErrorRow}) /\ Len(rows) <= ItemCount
    /\ ended \in BOOLEAN
    /\ opened \in Article \cup {Null}
    /\ page \in Pages

\* No more rows will be built.
ListFinished == outcome = "decoded" /\ (ended \/ Len(rows) = ItemCount)

\* The articles of the body that the list can show: those with an image like all
\* before them and, where asserts are checked, with a title.
Showable ==
    {i \in DOMAIN body :
        /\ i <= ItemCount
        /\ \A j \in 1 .. i : Lookup(body[j], "urlToImage") # Null
        /\ AssertsOn => Lookup(body[i], "title") # Null}

\* From the service to the screen (Article.fromJson and the item builder): the
\* good rows of a list that is built to its end are the showable articles of the
\* body, each in its own row, under its own title and with its own image.
RowsAreShowable ==
    ListFinished =>
        /\ {i \in DOMAIN rows : rows[i] # ErrorRow} = Showable
        /\ \A i \in Showable : /\ rows[i].title = Lookup(body[i], "title")
                               /\ rows[i].urlToImage = Lookup(body[i], "urlToImage")

\* Given the same response, the strip of a debug build is drawn exactly if the
\* list shows an article in each of its first rows, and then shows the same:
\* breakingNewsScroll.dart:71 asks for all its articles at once, wholeNews.dart:56
\* for one at a time, and what ends or spoils the rows loses the strip.
StripDrawnWithRows ==
    AssertsOn /\ ListFinished /\ StripCards <= ItemCount =>
        /\ StripDrawn <=> \A i \in Card : i + 1 \in DOMAIN rows /\ rows[i + 1] # ErrorRow
        /\ StripDrawn => \A i \in Card : rows[i + 1] = Cards[i]

\* Wherever the slider stands, also past its ends, the cards start in order.
CardsInOrder == StripDrawn => \A h \in Heights : InOrder(h, page)

\* When the slider rests on a page, that page's card is whole exactly on strips
\* up to 380 pixels high, which is a screen 553 wide; on wider ones, as of a
\* phone on its side (ios/Runner/Info.plist allows it), the next card covers its
\* edge, unless there is no next card (breakingNewsScroll.dart, start).
FrontCardInView ==
    StripDrawn =>
        \A h \in Heights, i \in Card :
            page = Steps * i => (FrontInView(h, i) <=> h <= 380 \/ i = StripCards - 1)

\* "itemCount:19,//just a max length" (wholeNews.dart:53): there may be fewer
\* rows than that, so none stands for an article that does not exist.
ItemCountIsAMaximum == Len(rows) <= Len(articles)
=============================================================================
