--------------------------- MODULE NewsListProofs ---------------------------
(***************************************************************************)
(* Type correctness of NewsList, what its rows promise, and the geometry of *)
(* the strip, for every number of articles, rows and cards, every way in    *)
(* which articles may come and every height of the strip.                   *)
(***************************************************************************)
EXTENDS NewsList, TLAPS

\* What a body that is a list consists of.
LEMMA BodyElements ==
    ASSUME NEW b \in Bodies, b # Null
    PROVE  \E n \in 0 .. MaxArticles : \E shapes \in [1 .. n -> Shapes] :
              b = [i \in 1 .. n |-> JsonArticle(i, shapes[i])]
  BY DEF Bodies

\* An article of a body has texts of its own under the keys, or nothing.
LEMMA LookupIsText ==
    ASSUME NEW i \in 1 .. MaxArticles, NEW shape \in Shapes, NEW key \in Keys,
           key # "publishedAt"
    PROVE  Lookup(JsonArticle(i, shape), key) \in Texts(key) \cup {Null}
  BY DEF Lookup, JsonArticle, Texts

\* What can be decoded is decoded to an article.
LEMMA DecodedIsArticle ==
    ASSUME NEW i \in 1 .. MaxArticles, NEW shape \in Shapes,
           ~Throws(JsonArticle(i, shape))
    PROVE  ArticleFromJson(JsonArticle(i, shape)) \in Article
  <1> DEFINE json == JsonArticle(i, shape)
  <1>1. Lookup(json, "source") \in Texts("source")
    BY LookupIsText DEF Throws, Keys
  <1>2. /\ Lookup(json, "title") \in Texts("title") \cup {Null}
        /\ Lookup(json, "urlToImage") \in Texts("urlToImage") \cup {Null}
    BY LookupIsText DEF Keys
  <1>3. Lookup(json, "publishedAt") \in Texts("publishedAt")
    BY DEF Throws
  <1>4. DateTimeParse(Lookup(json, "publishedAt")) \in Texts("DateTime")
    BY <1>3 DEF DateTimeParse, Texts
  <1> QED  BY <1>1, <1>2, <1>4 DEF ArticleFromJson, Article

\* Decoding a body whose articles can all be decoded gives articles.
LEMMA DecodedAreArticles ==
    ASSUME NEW b \in Bodies, Decodable(b)
    PROVE  NewsFromJson(b) \in Seq(Article)
  <1>0. PICK n \in 0 .. MaxArticles : \E shapes \in [1 .. n -> Shapes] :
           b = [i \in 1 .. n |-> JsonArticle(i, shapes[i])]
    BY BodyElements DEF Decodable
  <1>1. PICK shapes \in [1 .. n -> Shapes] : b = [i \in 1 .. n |-> JsonArticle(i, shapes[i])]
    BY <1>0
  <1>2. n \in Nat /\ DOMAIN b = 1 .. n
    BY <1>1, SizesAssumption
  <1>3. ASSUME NEW i \in 1 .. n
        PROVE  ArticleFromJson(b[i]) \in Article
    <2>1. b[i] = JsonArticle(i, shapes[i]) /\ ~Throws(b[i])
      BY <1>1, <1>2 DEF Decodable
    <2>2. i \in 1 .. MaxArticles /\ shapes[i] \in Shapes
      BY SizesAssumption
    <2> QED  BY <2>1, <2>2, DecodedIsArticle
  <1>4. NewsFromJson(b) \in [1 .. n -> Article]
    BY <1>2, <1>3 DEF NewsFromJson
  <1> QED  BY <1>2, <1>4

-----------------------------------------------------------------------------
\* The list as it is built: the articles are those of the body; row i is what
\* the item builder makes of index i; no row is past an article without an
\* image, and the list ended before one.
RowsInv ==
    /\ outcome # "decoded" => articles = <<>> /\ rows = <<>> /\ ~ended
    /\ outcome = "decoded" => Decodable(body) /\ articles = NewsFromJson(body)
    /\ \A i \in 1 .. Len(rows) :
          /\ rows[i] = RowFor(i)
          /\ i <= Len(articles) => articles[i].urlToImage # Null
    /\ ended => /\ Len(rows) < ItemCount /\ Len(rows) < Len(articles)
                /\ articles[Len(rows) + 1].urlToImage = Null

\* A row is an article, or the error row.
LEMMA RowForIsRow ==
    ASSUME TypeOK, NEW index \in Nat, index >= 1
    PROVE  RowFor(index) \in Article \cup {ErrorRow}
  <1>1. CASE index > Len(articles)
    BY <1>1 DEF RowFor
  <1>2. CASE index <= Len(articles)
    <2>1. articles[index] \in Article
      BY <1>2 DEF TypeOK
    <2> QED  BY <2>1 DEF RowFor
  <1> QED  BY <1>1, <1>2 DEF TypeOK

LEMMA InitType ==
    ASSUME Init
    PROVE  TypeOK /\ RowsInv
  <1>1. page \in Pages
    BY SizesAssumption, StripAssumption DEF Init, Pages
  <1>2. TypeOK
    <2>1. articles \in Seq(Article)
      BY DEF Init
    <2>2. rows \in Seq(Article \cup {ErrorRow}) /\ Len(rows) = 0
      BY DEF Init
    <2>3. ended \in BOOLEAN /\ opened \in Article \cup {Null}
      BY DEF Init
    <2>4. body \in Bodies /\ outcome \in {"none", "decoded", "error"}
      BY DEF Init
    <2> QED  BY <1>1, <2>1, <2>2, <2>3, <2>4, SizesAssumption DEF TypeOK
  <1>3. RowsInv
    BY DEF Init, RowsInv
  <1> QED  BY <1>2, <1>3

LEMMA DecodeStep ==
    ASSUME TypeOK, RowsInv, Decode
    PROVE  TypeOK' /\ RowsInv'
  <1>1. articles' \in Seq(Article)
    BY DecodedAreArticles DEF Decode, TypeOK
  <1>2. outcome' \in {"decoded", "error"} /\ body' = body /\ page' = page
    BY DEF Decode
  <1>3. rows = <<>> /\ ~ended /\ UNCHANGED <<rows, ended, opened>>
    BY DEF Decode, RowsInv, list
  <1>4. /\ outcome' # "decoded" => articles' = <<>>
        /\ outcome' = "decoded" => Decodable(body') /\ articles' = NewsFromJson(body')
    BY DEF Decode, RowsInv
  <1>5. TypeOK'
    BY <1>1, <1>2, <1>3 DEF TypeOK
  <1>6. RowsInv'
    BY <1>3, <1>4 DEF RowsInv
  <1> QED  BY <1>5, <1>6

LEMMA BuildRowStep ==
    ASSUME TypeOK, RowsInv, BuildRow
    PROVE  TypeOK' /\ RowsInv'
  <1> DEFINE index == Len(rows) + 1
             imageless == index <= Len(articles) /\ articles[index].urlToImage = Null
  <1>1. /\ rows \in Seq(Article \cup {ErrorRow}) /\ Len(rows) \in Nat
        /\ articles \in Seq(Article) /\ Len(articles) \in Nat
        /\ index <= ItemCount /\ ItemCount \in Nat
        /\ outcome = "decoded" /\ ~ended
        /\ UNCHANGED <<body, outcome, articles, opened, page>>
    BY SizesAssumption DEF TypeOK, BuildRow
  <1>2. CASE ~imageless /\ rows' = Append(rows, RowFor(index)) /\ UNCHANGED ended
    <2>1. RowFor(index) \in Article \cup {ErrorRow}
      BY <1>1, RowForIsRow
    <2>2. /\ rows' \in Seq(Article \cup {ErrorRow}) /\ Len(rows') = index
          /\ rows'[index] = RowFor(index)
          /\ \A i \in 1 .. Len(rows) : rows'[i] = rows[i]
      BY <1>1, <1>2, <2>1
    <2>3. \A i : RowFor(i)' = RowFor(i)
      BY <1>1 DEF RowFor
    <2>4. TypeOK'
      BY <1>1, <1>2, <2>2 DEF TypeOK
    <2>5. \A i \in 1 .. Len(rows') :
             /\ rows'[i] = RowFor(i)
             /\ i <= Len(articles) => articles[i].urlToImage # Null
      <3> SUFFICES ASSUME NEW i \in 1 .. index
                   PROVE  /\ rows'[i] = RowFor(i)
                          /\ i <= Len(articles) => articles[i].urlToImage # Null
        BY <2>2
      <3>1. CASE i = index
        BY <1>2, <2>2, <3>1
      <3>2. CASE i \in 1 .. Len(rows)
        BY <2>2, <3>2 DEF RowsInv
      <3> QED  BY <1>1, <3>1, <3>2
    <2>6. RowsInv'
      BY <1>1, <1>2, <2>3, <2>5 DEF RowsInv
    <2> QED  BY <2>4, <2>6
  <1>3. CASE imageless /\ ended' = TRUE /\ UNCHANGED rows
    <2>1. TypeOK'
      BY <1>1, <1>3 DEF TypeOK
    <2>2. \A i : RowFor(i)' = RowFor(i)
      BY <1>1 DEF RowFor
    <2>3. RowsInv'
      BY <1>1, <1>3, <2>2 DEF RowsInv
    <2> QED  BY <2>1, <2>3
  <1> QED  BY <1>2, <1>3 DEF BuildRow

\* The rows stay what they are while the articles do.
LEMMA RowsKept ==
    ASSUME RowsInv, UNCHANGED <<body, outcome, articles, rows, ended>>
    PROVE  RowsInv'
  <1>1. \A i : RowFor(i)' = RowFor(i)
    BY DEF RowFor
  <1> QED  BY <1>1 DEF RowsInv

LEMMA TapStep ==
    ASSUME TypeOK, RowsInv, NEW index \in 1 .. ItemCount, TapRow(index)
    PROVE  TypeOK' /\ RowsInv'
  <1>1. rows[index] \in Article
    BY DEF TypeOK, TapRow
  <1>2. TypeOK'
    BY <1>1 DEF TypeOK, TapRow
  <1> QED  BY <1>2, RowsKept DEF TapRow

LEMMA ReturnStep ==
    ASSUME TypeOK, RowsInv, Return
    PROVE  TypeOK' /\ RowsInv'
  <1>1. TypeOK'
    BY DEF TypeOK, Return
  <1> QED  BY <1>1, RowsKept DEF Return

LEMMA ScrollStep ==
    ASSUME TypeOK, RowsInv, Scroll
    PROVE  TypeOK' /\ RowsInv'
  <1>1. TypeOK'
    BY DEF TypeOK, Scroll, list
  <1> QED  BY <1>1, RowsKept DEF Scroll, list

LEMMA Inductive ==
    ASSUME TypeOK, RowsInv, [Next]_vars
    PROVE  TypeOK' /\ RowsInv'
  <1>1. CASE UNCHANGED vars
    BY <1>1, RowsKept DEF vars, TypeOK
  <1> QED
    BY <1>1, DecodeStep, BuildRowStep, TapStep, ReturnStep, ScrollStep DEF Next

\* The list and the slider stay well typed: no decoding leaves an article that
\* a row could not show, and no scrolling leaves the pages.
THEOREM TypeCorrect == Spec => []TypeOK
  <1> USE DEF Spec
  <1>1. Init => TypeOK /\ RowsInv
    BY InitType
  <1>2. TypeOK /\ RowsInv /\ [Next]_vars => (TypeOK /\ RowsInv)'
    BY Inductive
  <1> QED  BY <1>1, <1>2, PTL

-----------------------------------------------------------------------------
\* What a decoded article has is what its object in the body has.
LEMMA FromTheBody ==
    ASSUME TypeOK, RowsInv, outcome = "decoded"
    PROVE  /\ DOMAIN body = 1 .. Len(articles) /\ Len(articles) \in Nat
           /\ \A i \in 1 .. Len(articles) :
                 /\ articles[i] \in Article
                 /\ articles[i].title = Lookup(body[i], "title")
                 /\ articles[i].urlToImage = Lookup(body[i], "urlToImage")
  <1>1. articles = [i \in DOMAIN body |-> ArticleFromJson(body[i])]
    BY DEF RowsInv, NewsFromJson
  <1>2. DOMAIN body = DOMAIN articles
    BY <1>1
  <1>3. articles \in Seq(Article)
    BY DEF TypeOK
  <1>4. DOMAIN articles = 1 .. Len(articles) /\ Len(articles) \in Nat
    BY <1>3
  <1>5. \A i \in 1 .. Len(articles) : articles[i] \in Article
    BY <1>3
  <1>6. \A i \in 1 .. Len(articles) : articles[i] = ArticleFromJson(body[i])
    BY <1>1, <1>2, <1>4
  <1> QED  BY <1>2, <1>4, <1>5, <1>6 DEF ArticleFromJson

\* The rows that are no error rows.
LEMMA GoodRows ==
    ASSUME TypeOK, RowsInv, outcome = "decoded", NEW i \in 1 .. Len(rows)
    PROVE  /\ rows[i] # ErrorRow <=> i <= Len(articles) /\ ~Untitled(articles[i])
           /\ rows[i] # ErrorRow => rows[i] = articles[i]
  <1>1. rows[i] = RowFor(i) /\ (i <= Len(articles) => articles[i].urlToImage # Null)
    BY DEF RowsInv
  <1>2. ErrorRow.urlToImage = Null
    BY DEF ErrorRow
  <1>3. Len(articles) \in Nat /\ Len(rows) \in Nat
    BY DEF TypeOK
  <1> QED  BY <1>1, <1>2, <1>3 DEF RowFor

LEMMA RowsInvImplies ==
    ASSUME TypeOK, RowsInv
    PROVE  RowsAreShowable
  <1> SUFFICES ASSUME ListFinished
               PROVE  /\ {i \in DOMAIN rows : rows[i] # ErrorRow} = Showable
                      /\ \A i \in Showable :
                            /\ rows[i].title = Lookup(body[i], "title")
                            /\ rows[i].urlToImage = Lookup(body[i], "urlToImage")
    BY DEF RowsAreShowable
  <1>1. /\ outcome = "decoded" /\ Len(rows) \in Nat /\ Len(rows) <= ItemCount
        /\ ItemCount \in Nat /\ DOMAIN rows = 1 .. Len(rows)
    BY SizesAssumption DEF TypeOK, ListFinished
  <1>2. /\ DOMAIN body = 1 .. Len(articles) /\ Len(articles) \in Nat
        /\ \A i \in 1 .. Len(articles) :
              /\ articles[i].title = Lookup(body[i], "title")
              /\ articles[i].urlToImage = Lookup(body[i], "urlToImage")
    BY <1>1, FromTheBody
  <1>3. ASSUME NEW i \in 1 .. Len(rows), rows[i] # ErrorRow
        PROVE  i \in Showable
    <2>1. i <= Len(articles) /\ ~Untitled(articles[i])
      BY <1>1, <1>3, GoodRows
    <2>2. ASSUME NEW j \in 1 .. i
          PROVE  Lookup(body[j], "urlToImage") # Null
      <3>1. j \in 1 .. Len(rows) /\ j \in 1 .. Len(articles)
        BY <1>1, <1>2, <2>1
      <3>2. articles[j].urlToImage # Null
        BY <3>1 DEF RowsInv
      <3> QED  BY <1>2, <3>1, <3>2
    <2>3. i \in 1 .. Len(articles) /\ i <= ItemCount
      BY <1>1, <1>2, <2>1
    <2>4. AssertsOn => Lookup(body[i], "title") # Null
      BY <1>2, <2>1, <2>3 DEF Untitled
    <2> QED  BY <1>2, <2>2, <2>3, <2>4 DEF Showable
  <1>4. ASSUME NEW i \in Showable
        PROVE  /\ i \in 1 .. Len(rows) /\ rows[i] # ErrorRow
               /\ rows[i].title = Lookup(body[i], "title")
               /\ rows[i].urlToImage = Lookup(body[i], "urlToImage")
    <2>1. /\ i \in 1 .. Len(articles) /\ i <= ItemCount
          /\ \A j \in 1 .. i : Lookup(body[j], "urlToImage") # Null
          /\ AssertsOn => Lookup(body[i], "title") # Null
      BY <1>2, <1>4 DEF Showable
    <2>2. i <= Len(rows)
      <3>1. CASE Len(rows) = ItemCount
        BY <1>1, <2>1, <3>1
      <3>2. CASE ended
        <4> DEFINE next == Len(rows) + 1
        <4>1. next \in 1 .. Len(articles) /\ articles[next].urlToImage = Null
          BY <1>1, <1>2, <3>2 DEF RowsInv
        <4>2. Lookup(body[next], "urlToImage") = Null
          BY <1>2, <4>1
        <4>3. next \notin 1 .. i
          BY <2>1, <4>2
        <4> QED  BY <1>1, <1>2, <2>1, <4>3
      <3> QED  BY <3>1, <3>2 DEF ListFinished
    <2>3. i \in 1 .. Len(rows)
      BY <1>1, <1>2, <2>1, <2>2
    <2>4. ~Untitled(articles[i])
      BY <1>2, <2>1 DEF Untitled
    <2>5. rows[i] # ErrorRow /\ rows[i] = articles[i]
      BY <1>1, <1>2, <2>1, <2>3, <2>4, GoodRows
    <2> QED  BY <1>2, <2>1, <2>3, <2>5
  <1> QED  BY <1>1, <1>3, <1>4

\* From the body to the rows, for every response, every number of rows asked
\* for and both kinds of build: each showable article has its row, with its own
\* title and image, and no other row is good.
THEOREM RowsAreShowableTheorem == Spec => []RowsAreShowable
  <1> USE DEF Spec
  <1>1. Init => TypeOK /\ RowsInv
    BY InitType
  <1>2. TypeOK /\ RowsInv /\ [Next]_vars => (TypeOK /\ RowsInv)'
    BY Inductive
  <1>3. TypeOK /\ RowsInv => RowsAreShowable
    BY RowsInvImplies
  <1> QED  BY <1>1, <1>2, <1>3, PTL

\* A card of the strip and the row of its article meet the same conditions.
LEMMA StripMeetsRows ==
    ASSUME TypeOK, RowsInv
    PROVE  StripDrawnWithRows
  <1> SUFFICES ASSUME AssertsOn, ListFinished, StripCards <= ItemCount
               PROVE  /\ StripDrawn <=> \A i \in Card :
                                          i + 1 \in DOMAIN rows /\ rows[i + 1] # ErrorRow
                      /\ StripDrawn => \A i \in Card : rows[i + 1] = Cards[i]
    BY DEF StripDrawnWithRows
  <1>1. /\ outcome = "decoded" /\ Len(rows) \in Nat /\ Len(articles) \in Nat
        /\ ItemCount \in Nat /\ DOMAIN rows = 1 .. Len(rows)
        /\ StripCards \in Nat /\ StripCards >= 1
    BY SizesAssumption, StripAssumption DEF TypeOK, ListFinished
  <1>2. ASSUME StripDrawn, NEW i \in Card
        PROVE  /\ i + 1 \in DOMAIN rows /\ rows[i + 1] # ErrorRow
               /\ rows[i + 1] = Cards[i]
    <2>1. /\ Len(articles) >= StripCards /\ i \in 0 .. StripCards - 1
          /\ \A j \in Card : articles[j + 1].urlToImage # Null /\ ~Untitled(articles[j + 1])
      BY <1>1, <1>2 DEF StripDrawn, StripThrows, Card
    <2>2. i + 1 <= Len(rows)
      <3>1. CASE Len(rows) = ItemCount
        BY <1>1, <2>1, <3>1
      <3>2. CASE ended
        <4>1. articles[Len(rows) + 1].urlToImage = Null
          BY <3>2 DEF RowsInv
        <4>2. Len(rows) \notin Card
          BY <2>1, <4>1
        <4> QED  BY <1>1, <2>1, <4>2 DEF Card
      <3> QED  BY <3>1, <3>2 DEF ListFinished
    <2>3. i + 1 \in 1 .. Len(rows) /\ i + 1 <= Len(articles) /\ ~Untitled(articles[i + 1])
      BY <1>1, <2>1, <2>2
    <2>4. rows[i + 1] # ErrorRow /\ rows[i + 1] = articles[i + 1]
      BY <1>1, <2>3, GoodRows
    <2> QED  BY <1>1, <1>2, <2>3, <2>4 DEF Cards
  <1>3. ASSUME \A i \in Card : i + 1 \in DOMAIN rows /\ rows[i + 1] # ErrorRow
        PROVE  StripDrawn
    <2>1. ASSUME NEW i \in Card
          PROVE  /\ i + 1 <= Len(articles) /\ ~Untitled(articles[i + 1])
                 /\ articles[i + 1].urlToImage # Null
      <3>1. i + 1 \in 1 .. Len(rows) /\ rows[i + 1] # ErrorRow
        BY <1>1, <1>3
      <3>2. i + 1 <= Len(articles) /\ ~Untitled(articles[i + 1])
        BY <1>1, <3>1, GoodRows
      <3> QED  BY <3>1, <3>2 DEF RowsInv
    <2>2. StripCards - 1 \in Card
      BY <1>1 DEF Card
    <2>3. (StripCards - 1) + 1 <= Len(articles)
      BY <2>1, <2>2
    <2>4. ~(Len(articles) < StripCards)
      BY <1>1, <2>3
    <2> QED  BY <1>1, <2>1, <2>4 DEF StripDrawn, StripThrows
  <1> QED  BY <1>2, <1>3

\* In a debug build the strip and the first rows of the list succeed and fail
\* together, for every response and any number of cards.
THEOREM StripDrawnWithRowsTheorem == Spec => []StripDrawnWithRows
  <1> USE DEF Spec
  <1>1. Init => TypeOK /\ RowsInv
    BY InitType
  <1>2. TypeOK /\ RowsInv /\ [Next]_vars => (TypeOK /\ RowsInv)'
    BY Inductive
  <1>3. TypeOK /\ RowsInv => StripDrawnWithRows
    BY StripMeetsRows
  <1> QED  BY <1>1, <1>2, <1>3, PTL

-----------------------------------------------------------------------------
\* primaryCardLeft and horizontalInset are never negative, and the first is
\* twice the second: 0.13 h + 13 pixels and half of it.
LEMMA Lengths ==
    ASSUME NEW h \in Nat, h >= 20
    PROVE  /\ horizontalInset(h) \in Nat
           /\ horizontalInset(h) = 13 * h + 1300
           /\ primaryCardLeft(h) = 2 * horizontalInset(h)
  BY DEF horizontalInset, primaryCardLeft

\* A product with a factor that is not negative keeps the order.
LEMMA TimesKeepsOrder ==
    ASSUME NEW c \in Nat, NEW x \in Int, NEW y \in Int, x <= y
    PROVE  c * x <= c * y /\ c * x \in Int /\ c * y \in Int
  OBVIOUS

\* The cards of the strip start in order for every page of the slider, for
\* every number of cards and every height.
LEMMA StartsInOrder ==
    ASSUME NEW h \in Nat, h >= 20, NEW p \in Int
    PROVE  InOrder(h, p)
  <1> SUFFICES ASSUME NEW i \in Card, NEW j \in Card, i < j
               PROVE  Start(h, p, i) <= Start(h, p, j)
    BY DEF InOrder
  <1> DEFINE c == horizontalInset(h)
             a == primaryCardLeft(h)
             f(d) == IF d > 0 THEN 15 * d ELSE d
  <1>1. c \in Nat /\ a \in Int /\ i \in Int /\ j \in Int /\ Steps \in Nat
    BY Lengths, StripAssumption DEF Card
  <1>2. Steps * i \in Int /\ Steps * j \in Int /\ Steps * i <= Steps * j
    BY <1>1, TimesKeepsOrder
  <1>3. /\ Delta(p, i) \in Int /\ Delta(p, j) \in Int
        /\ Delta(p, i) <= Delta(p, j)
    BY <1>2 DEF Delta
  <1>4. f(Delta(p, i)) \in Int /\ f(Delta(p, j)) \in Int /\ f(Delta(p, i)) <= f(Delta(p, j))
    BY <1>3
  <1>5. c * f(Delta(p, i)) \in Int /\ c * f(Delta(p, j)) \in Int
        /\ c * f(Delta(p, i)) <= c * f(Delta(p, j))
    <2> HIDE DEF f, c
    <2> QED  BY <1>1, <1>4, TimesKeepsOrder
  <1>6. Steps * a \in Int /\ Dp(10) \in Int
    BY <1>1 DEF Dp
  <1>7. /\ Start(h, p, i) = Dp(10) + Positive(Steps * a + c * f(Delta(p, i)))
        /\ Start(h, p, j) = Dp(10) + Positive(Steps * a + c * f(Delta(p, j)))
    BY DEF Start
  <1> HIDE DEF a, c, f
  <1> QED  BY <1>5, <1>6, <1>7 DEF Positive

\* At rest on a page its card is inside the strip and in front of all earlier
\* ones; and it is beside all later ones exactly if the next one is pushed aside
\* as far as the card is wide, 260 (h - 20) against 15 (13 h + 1300) in 200ths of
\* a pixel, or if there is none.
LEMMA FrontIsWhole ==
    ASSUME NEW h \in Nat, h >= 20, NEW i \in Card
    PROVE  FrontInView(h, i) <=> h <= 380 \/ i = StripCards - 1
  <1> DEFINE p == Steps * i
             c == 13 * h + 1300
             w == 260 * (h - 20)
  <1>1. i \in Nat /\ Steps \in Nat /\ Steps >= 1 /\ h \in Int /\ c \in Nat /\ w \in Nat
    BY StripAssumption DEF Card
  <1>2. /\ Start(h, p, i) = Steps * (2000 + 2 * c)
        /\ End(h, p, i) = Steps * (2000 + 2 * c + w)
    <2>1. Delta(p, i) = 0
      BY <1>1 DEF Delta
    <2>2. Steps * primaryCardLeft(h) \in Nat /\ primaryCardLeft(h) = 2 * c /\ horizontalInset(h) = c
      BY <1>1, Lengths
    <2> QED  BY <1>1, <2>1, <2>2 DEF Start, End, CardWidth, Positive, Dp
  <1>3. 0 <= Start(h, p, i) /\ End(h, p, i) <= StripWidth(h)
    BY <1>1, <1>2 DEF StripWidth
  <1>4. ASSUME NEW j \in Card, j > i
        PROVE  /\ w <= 15 * c => End(h, p, i) <= Start(h, p, j)
               /\ j = i + 1 /\ End(h, p, i) <= Start(h, p, j) => w <= 15 * c
    <2> DEFINE n == j - i
    <2>1. n \in Nat /\ n >= 1 /\ Delta(p, j) = Steps * n /\ Steps * n \in Nat /\ Steps * n >= Steps
      BY <1>1, <1>4, TimesKeepsOrder DEF Delta, Card
    <2>2. primaryCardLeft(h) = 2 * c /\ horizontalInset(h) = c /\ Dp(10) = Steps * 2000
      BY <1>1, Lengths DEF Dp
    <2>3. Start(h, p, j) = Steps * 2000 + Positive(Steps * (2 * c) + c * (15 * (Steps * n)))
      BY <1>1, <2>1, <2>2 DEF Start
    <2>4. c * (15 * Steps) <= c * (15 * (Steps * n)) /\ c * (15 * Steps) = Steps * (15 * c)
      <3>1. 15 * Steps <= 15 * (Steps * n) /\ 15 * Steps \in Int /\ 15 * (Steps * n) \in Int
        BY <1>1, <2>1
      <3>2. c * (15 * Steps) = Steps * (15 * c)
        BY <1>1
      <3> HIDE DEF c, n
      <3> QED  BY <1>1, <3>1, <3>2, TimesKeepsOrder
    <2>5. /\ c * (15 * (Steps * n)) \in Int /\ Steps * (2 * c) \in Nat
          /\ Steps * (15 * c) \in Nat /\ Steps * 2000 \in Nat /\ Steps * w \in Nat
      BY <1>1, <2>1
    <2>6. /\ Start(h, p, j) >= Steps * 2000 + Steps * (2 * c) + Steps * (15 * c)
          /\ Start(h, p, j) \in Int
      <3> HIDE DEF c, n
      <3> QED  BY <2>3, <2>4, <2>5 DEF Positive
    <2>7. End(h, p, i) = Steps * 2000 + Steps * (2 * c) + Steps * w
      BY <1>1, <1>2
    <2>8. ASSUME w <= 15 * c
          PROVE  End(h, p, i) <= Start(h, p, j)
      <3>1. Steps * w <= Steps * (15 * c)
        <4>1. w \in Int /\ 15 * c \in Int
          BY <1>1
        <4> HIDE DEF c, w
        <4> QED  BY <1>1, <2>8, <4>1, TimesKeepsOrder
      <3> HIDE DEF c, w, n
      <3> QED  BY <2>5, <2>6, <2>7, <3>1
    <2>9. ASSUME j = i + 1, ~(w <= 15 * c)
          PROVE  ~(End(h, p, i) <= Start(h, p, j))
      <3>1. n = 1 /\ c * (15 * (Steps * n)) = Steps * (15 * c)
        BY <1>1, <2>4, <2>9
      <3>2. Start(h, p, j) = Steps * 2000 + Steps * (2 * c) + Steps * (15 * c)
        <4> HIDE DEF c, n
        <4> QED  BY <2>3, <2>5, <3>1 DEF Positive
      <3>3. Steps * (15 * c) + Steps <= Steps * w
        <4>1. 15 * c + 1 <= w /\ w \in Int /\ 15 * c + 1 \in Int /\ 15 * c \in Int
          BY <1>1, <2>9
        <4>2. Steps * (15 * c + 1) = Steps * (15 * c) + Steps
          BY <1>1
        <4> HIDE DEF c, w
        <4> QED  BY <1>1, <4>1, <4>2, TimesKeepsOrder
      <3> HIDE DEF c, w, n
      <3> QED  BY <1>1, <2>5, <2>7, <3>2, <3>3
    <2> QED  BY <2>8, <2>9
  <1>5. ASSUME NEW j \in Card, j < i
        PROVE  Start(h, p, j) < Start(h, p, i) /\ End(h, p, j) < End(h, p, i)
    <2> DEFINE n == i - j
    <2>1. n \in Nat /\ n >= 1 /\ Delta(p, j) = -(Steps * n) /\ Steps * n \in Nat /\ Steps * n >= Steps
      BY <1>1, <1>5, TimesKeepsOrder DEF Delta, Card
    <2>2. primaryCardLeft(h) = 2 * c /\ horizontalInset(h) = c /\ Dp(10) = Steps * 2000
      BY <1>1, Lengths DEF Dp
    <2>3. Start(h, p, j) = Steps * 2000 + Positive(Steps * (2 * c) - c * (Steps * n))
      <3>1. ~(Delta(p, j) > 0)
        BY <1>1, <2>1
      <3>2. Start(h, p, j) = Dp(10) + Positive(Steps * primaryCardLeft(h) + horizontalInset(h) * Delta(p, j))
        BY <3>1 DEF Start
      <3>3. c * (-(Steps * n)) = -(c * (Steps * n))
        BY <1>1, <2>1
      <3> QED  BY <1>1, <2>1, <2>2, <3>2, <3>3
    <2>4. c * Steps <= c * (Steps * n) /\ c * (Steps * n) \in Int
      <3> HIDE DEF c, n
      <3> QED  BY <1>1, <2>1, TimesKeepsOrder
    <2>5. Steps * (2 * c) - c * Steps = Steps * c /\ Steps * c >= 1 /\ Steps * c \in Int
      BY <1>1, TimesKeepsOrder
    <2>6. Start(h, p, j) <= Steps * 2000 + Steps * c /\ Start(h, p, j) \in Int
      <3>1. Steps * (2 * c) \in Int /\ c * Steps \in Int /\ Steps * 2000 \in Int
        BY <1>1
      <3> HIDE DEF c, n
      <3> QED  BY <2>3, <2>4, <2>5, <3>1 DEF Positive
    <2>7. CardWidth(h, p, j) <= Steps * w /\ CardWidth(h, p, j) \in Int
      <3>1. 260 * Steps * (h - 20) = Steps * w
        BY <1>1
      <3>2. Positive(-Delta(p, j)) = Steps * n
        BY <1>1, <2>1 DEF Positive
      <3>3. Steps * w \in Int
        BY <1>1
      <3> HIDE DEF w, n
      <3> QED  BY <1>1, <2>1, <3>1, <3>2, <3>3 DEF CardWidth
    <2>8. /\ Start(h, p, i) = Steps * 2000 + Steps * c + Steps * c
          /\ End(h, p, i) = Steps * 2000 + Steps * c + Steps * c + Steps * w
          /\ Steps * 2000 \in Int /\ Steps * w \in Int
      BY <1>1, <1>2
    <2> HIDE DEF c, w, n
    <2> QED  BY <2>5, <2>6, <2>7, <2>8 DEF End
  <1>6. w <= 15 * c <=> h <= 380
    BY <1>1
  <1>7. CASE i = StripCards - 1
    <2>1. \A j \in Card : ~(j > i)
      BY <1>7, StripAssumption DEF Card
    <2> QED  BY <1>3, <1>5, <1>7, <2>1 DEF FrontInView
  <1>8. CASE i # StripCards - 1
    <2>1. i + 1 \in Card /\ i + 1 > i
      BY <1>8, StripAssumption DEF Card
    <2>2. FrontInView(h, i) => h <= 380
      BY <1>4, <1>6, <2>1 DEF FrontInView
    <2>3. h <= 380 => FrontInView(h, i)
      BY <1>3, <1>4, <1>5, <1>6 DEF FrontInView
    <2> QED  BY <1>8, <2>2, <2>3
  <1> QED  BY <1>7, <1>8

\* Wherever the slider stands the cards of a drawn strip start in order.
THEOREM CardsInOrderTheorem == Spec => []CardsInOrder
  <1>1. TypeOK => CardsInOrder
    <2> SUFFICES ASSUME page \in Pages, NEW h \in Heights
                 PROVE  InOrder(h, page)
      BY DEF TypeOK, CardsInOrder
    <2>1. h \in Nat /\ h >= 20
      BY SizesAssumption
    <2>2. page \in Int
      BY SizesAssumption, StripAssumption DEF Pages
    <2> QED  BY <2>1, <2>2, StartsInOrder
  <1> QED  BY <1>1, TypeCorrect, PTL

\* At rest on any page the card of that page is whole on strips up to 380 pixels
\* high, and on no higher one but for the last card, for any number of cards.
THEOREM FrontCardInViewTheorem == Spec => []FrontCardInView
  <1>1. TypeOK => FrontCardInView
    <2> SUFFICES ASSUME NEW h \in Heights, NEW i \in Card
                 PROVE  FrontInView(h, i) <=> h <= 380 \/ i = StripCards - 1
      BY DEF FrontCardInView
    <2>1. h \in Nat /\ h >= 20
      BY SizesAssumption
    <2> QED  BY <2>1, FrontIsWhole
  <1> QED  BY <1>1, TypeCorrect, PTL
=============================================================================
