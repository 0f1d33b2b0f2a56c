-------------------------- MODULE ChallengeHeaders --------------------------
(***************************************************************************)
(* The two readers of a WWW-Authenticate header, each a loop over the      *)
(* symbols of the header with indexes kept by hand:                        *)
(*   - handlePKeyAuthChallenge: / parseAuthHeader: (ADWebAuthResponse.m),  *)
(*     the device challenge of a token request;                            *)
(*   - extractChallengeParameters: and the methods under it                *)
(*     (ADAuthenticationParameters+Internal.m), with which an application  *)
(*     reads the challenge of its own resource.                            *)
(* A header is a sequence of symbols: a word ("Bearer", Uri for            *)
(* authorization_uri, a letter) is one symbol.  Indexes start at 1.  An    *)
(* NSUInteger is cut to Word values, more than any header is long.         *)
(***************************************************************************)
EXTENDS Integers, SequencesExt

CONSTANTS
    PKeyAuthHeaders,    \* what may follow the word PKeyAuth
    BearerHeaders,      \* values of the header a resource may answer with
    PKeyAuthLists,      \* lists of fields a server may mean with the first
    BearerLists,        \* and with the second
    Letters,            \* the symbols of names
    Word                \* number of values of an NSUInteger

ASSUME ListsDiffer == PKeyAuthLists \cap BearerLists = {}
ASSUME WordAssumption == Word \in Nat \ {0}

VARIABLES
    header,     \* the header being read
    meant,      \* the fields it was written from; <<>> for any other header
    reader,     \* where the reader is
    range,      \* currentRange; for items, leftIndex
    found,      \* found; for items, rightIndex
    key,        \* the name read last
    params,     \* the parameters read so far
    items       \* the items of extractItems:

readerVars == <<header, meant, reader, range, found, key, params, items>>

NotFound == 0
White == {" "}
Quote == "\""
NoParams == [name \in {} |-> <<>>]

FirstOf(positions) == IF positions = {} THEN NotFound ELSE Min(positions)
IndexOf(symbol, s, first) == FirstOf({i \in first..Len(s) : s[i] = symbol})

\* The first position from i on that is not white, or the end.
AfterWhite(s, i) == FirstOf({j \in i..Len(s) : s[j] \notin White} \cup {Max({i, Len(s) + 1})})

At(s, i) == IF i \in DOMAIN s THEN s[i] ELSE ""

---------------------------------------------------------------------------
(* How a server writes a list of fields: the reference the readers are     *)
(* held against.                                                           *)

Rendered(field) ==
    field.white \o (IF field.scheme = "" THEN <<>> ELSE <<field.scheme, " ">>)
    \o <<field.name, "=">>
    \o (IF field.quoted THEN <<Quote>> \o field.value \o <<Quote>> ELSE field.value)

Written(list) == Tail(FlattenSeq([i \in DOMAIN list |-> <<",">> \o Rendered(list[i])]))

\* A name that is used again has its values joined with a full stop.
JoinedValues(list) ==
    [name \in {<<list[i].name>> : i \in DOMAIN list} |->
        LET same == SelectSeq(list, LAMBDA field : <<field.name>> = name)
        IN  Tail(FlattenSeq([i \in DOMAIN same |-> <<".">> \o same[i].value]))]

Bearers(list) == {i \in DOMAIN list : list[i].scheme = "Bearer"}

\* The fields of the only Bearer challenge: up to the next scheme.
OfBearer(list) ==
    LET first == Min(Bearers(list))
        last == Min({i \in first + 1..Len(list) : list[i].scheme # ""} \cup {Len(list) + 1}) - 1
    IN  {i \in first..last : list[i].value # <<>>}

BearerValues(list) ==
    [name \in {<<list[i].name>> : i \in OfBearer(list)} |->
        list[Max({i \in OfBearer(list) : <<list[i].name>> = name})].value]

IsURL(value) == \A i \in DOMAIN value : value[i] \notin White

NamesAuthority(parameters) ==
    <<"Uri">> \in DOMAIN parameters /\ IsURL(parameters[<<"Uri">>])

\* What handlePKeyAuthChallenge: may be given.
PKeyAuthTexts == PKeyAuthHeaders \cup {<<" ">> \o Written(list) : list \in PKeyAuthLists}

\* What extractItems: may be given.
BearerTexts == BearerHeaders \cup {Written(list) : list \in BearerLists}

\* An NSString is shorter than an NSUInteger counts.
ASSUME HeadersFit ==
    \A text \in PKeyAuthTexts \cup BearerTexts : text \in Seq(STRING) /\ Len(text) < Word

---------------------------------------------------------------------------

Start(place, list, text) ==
    /\ reader = place /\ meant = list /\ header = text
    /\ range = [location |-> 1, length |-> Len(text)]
    /\ found = 1 /\ key = <<>> /\ params = NoParams /\ items = <<>>

ReaderInit ==
    \/ \E text \in PKeyAuthHeaders : Start("pkeyauth", <<>>, text)
    \/ \E list \in PKeyAuthLists : Start("pkeyauth", list, <<" ">> \o Written(list))
    \/ \E text \in BearerHeaders : Start("items", <<>>, text)
    \/ \E list \in BearerLists : Start("items", list, Written(list))

EndWith(result) == reader' = result

Advance_LocationOnly(r, n) == [r EXCEPT !.location = @ + n]

Advance(r, n) == [location |-> r.location + n, length |-> (r.length - n) % Word]

\* What Foundation checks before it searches or cuts a range of the header.
InHeader(r) == r.location - 1 + r.length <= Len(header)

---------------------------------------------------------------------------
(* parseAuthHeader: *)

\* The word and one symbol after it are cut off; substringFromIndex: raises
\* when there is no such symbol.
HandlePKeyAuthChallenge ==
    /\ reader = "pkeyauth"
    /\ IF header = <<>>
       THEN EndWith("raised") /\ UNCHANGED <<header, range>>
       ELSE /\ reader' = "key" /\ header' = Tail(header)
            /\ range' = [location |-> 1, length |-> Len(header) - 1]
    /\ UNCHANGED <<meant, found, key, params, items>>

KeyAt == AfterWhite(header, range.location)

EndOfHeader ==
    /\ reader = "key" /\ KeyAt > Len(header)
    /\ EndWith("returned")
    /\ UNCHANGED <<header, meant, range, found, key, params, items>>

MalformedKey ==
    /\ reader = "key" /\ KeyAt <= Len(header)
    /\ header[KeyAt] \notin Letters \/ IndexOf("=", header, KeyAt) = NotFound
    /\ EndWith("nil")
    /\ UNCHANGED <<header, meant, range, found, key, params, items>>

\* The symbol after the = is read without asking whether there is one.
ReadKey ==
    LET equals == IndexOf("=", header, KeyAt)
        value == Advance(range, equals + 1 - range.location)
    IN  /\ reader = "key" /\ KeyAt <= Len(header)
        /\ header[KeyAt] \in Letters /\ equals # NotFound
        /\ key' = SubSeq(header, KeyAt, equals - 1)
        /\ \/ value.location > Len(header) /\ EndWith("raised") /\ UNCHANGED <<range, found>>
           \/ /\ At(header, value.location) = Quote
              /\ reader' = "quote" /\ range' = Advance(value, 1) /\ found' = value.location + 1
           \/ /\ At(header, value.location) \notin {"", Quote}
              /\ reader' = "plain" /\ range' = value /\ UNCHANGED found
        /\ UNCHANGED <<header, meant, params, items>>

AddParam(value) ==
    params' = IF key \in DOMAIN params
              THEN [params EXCEPT ![key] = @ \o <<".">> \o value]
              ELSE (key :> value) @@ params

CommaIn(r) == FirstOf({i \in r.location..r.location + r.length - 1 : At(header, i) = ","})

ReadPlainValue ==
    LET comma == CommaIn(range)
        length == IF comma = NotFound THEN range.length ELSE comma - range.location
    IN  /\ reader = "plain"
        /\ IF InHeader(range)
           THEN /\ AddParam(SubSeq(header, range.location, range.location + length - 1))
                /\ range' = Advance(range, length + 1) /\ reader' = "key"
           ELSE EndWith("raised") /\ UNCHANGED <<range, params>>
        /\ UNCHANGED <<header, meant, found, key, items>>

\* The search for the closing quote starts again AT the quote it has found.
FindQuote ==
    LET quote == IndexOf(Quote, header, found)
    IN  /\ reader = "quote"
        /\ \/ quote = NotFound /\ EndWith("nil") /\ UNCHANGED found
           \/ quote # NotFound /\ At(header, quote - 1) = "\\" /\ found' = quote /\ UNCHANGED reader
           \/ quote # NotFound /\ At(header, quote - 1) # "\\" /\ found' = quote /\ reader' = "quoted"
        /\ UNCHANGED <<header, meant, range, key, params, items>>

\* Without a further comma the reader moves on by the length of the value.
ReadQuotedValue ==
    LET size == found - range.location
        rest == Advance(range, size + 1)
        comma == CommaIn(rest)
        length == IF comma = NotFound THEN size + 1 ELSE comma - rest.location
    IN  /\ reader = "quoted"
        /\ IF InHeader(rest)
           THEN /\ AddParam(SubSeq(header, range.location, found - 1))
                /\ range' = Advance(rest, length + 1) /\ reader' = "key"
           ELSE EndWith("raised") /\ UNCHANGED <<range, params>>
        /\ UNCHANGED <<header, meant, found, key, items>>

---------------------------------------------------------------------------
(* extractItems: *)

SkipQuoted_StaysAtQuote ==
    /\ reader = "items" /\ At(header, found) \in {Quote, "'"}
    /\ found' = Max({found, IndexOf(header[found], header, found + 1)})
    /\ UNCHANGED <<header, meant, reader, range, key, params, items>>

SkipQuoted ==
    /\ reader = "items" /\ At(header, found) \in {Quote, "'"}
    /\ found' = Max({found, IndexOf(header[found], header, found + 1)}) + 1
    /\ UNCHANGED <<header, meant, reader, range, key, params, items>>

Item == SubSeq(header, range.location, found - 1)

CutAtComma ==
    /\ reader = "items" /\ At(header, found) = ","
    /\ items' = Append(items, Item)
    /\ range' = [range EXCEPT !.location = found + 1]
    /\ found' = found + 1
    /\ UNCHANGED <<header, meant, reader, key, params>>

OtherSymbol ==
    /\ reader = "items" /\ found <= Len(header)
    /\ header[found] \notin {Quote, "'", ","}
    /\ found' = found + 1
    /\ UNCHANGED <<header, meant, reader, range, key, params, items>>

IsBlank(item) == \A i \in DOMAIN item : item[i] \in White

\* The array is nil when the header ends in a comma, is empty or has a blank item.
ItemsRead ==
    LET all == Append(items, Item)
    IN  /\ reader = "items" /\ found > Len(header)
        /\ items' = IF range.location = found \/ \E i \in DOMAIN all : IsBlank(all[i])
                    THEN <<>> ELSE all
        /\ reader' = "bearer"
        /\ UNCHANGED <<header, meant, range, found, key, params>>

---------------------------------------------------------------------------
(* extractChallengeParameters: and initInternalWithParameters: *)

NotInName == White \cup {",", "=", Quote}

AllWhite(s, from, to) == \A k \in from..to : s[k] \in White

\* Where the name, and where the quotes of the value stand in the match of
\* ExtractionExpression that begins at i: one pair of positions, or none.
NameAt(s, i) ==
    {n \in (i..Len(s)) \X (i..Len(s)) :
        /\ n[1] <= n[2] /\ AllWhite(s, i, n[1] - 1)
        /\ \A k \in n[1]..n[2] : s[k] \notin NotInName
        /\ \E e \in n[2] + 1..Len(s) : s[e] = "=" /\ AllWhite(s, n[2] + 1, e - 1)}

QuotesAt(s, i) ==
    {q \in (i..Len(s)) \X (i..Len(s)) :
        /\ q[1] < q[2] /\ s[q[1]] = Quote /\ s[q[2]] = Quote
        /\ \A k \in q[1] + 1..q[2] - 1 : s[k] # Quote
        /\ \E e \in i..q[1] - 1 : /\ s[e] = "=" /\ AllWhite(s, e + 1, q[1] - 1)
                                 /\ \A k \in i..e - 1 : s[k] # "="}

MatchAt(s, i) ==
    {[name |-> SubSeq(s, n[1], n[2]), value |-> SubSeq(s, q[1] + 1, q[2] - 1), next |-> q[2] + 1] :
        n \in NameAt(s, i), q \in QuotesAt(s, i)}

FirstMatch(s, i) ==
    UNION {MatchAt(s, j) : j \in {k \in i..Len(s) : \A l \in i..k - 1 : MatchAt(s, l) = {}}}

IsParameter(s) == MatchAt(s, 1) # {}

IsBearer(s) ==
    \E i \in DOMAIN s : /\ s[i] = "Bearer" /\ At(s, i + 1) \in White
                        /\ MatchAt(s, i + 1) # {}

\* Every "Bearer" that white follows goes, with the white on both sides.
WithoutBearer(s) ==
    LET word == {i \in DOMAIN s : s[i] = "Bearer" /\ At(s, i + 1) \in White}
        gone(j) == \E i \in word : \A k \in (i..j \cup j..i) \ {i} : s[k] \in White
        kept == SelectSeq([j \in DOMAIN s |-> j], LAMBDA j : ~gone(j))
    IN  [n \in DOMAIN kept |-> s[kept[n]]]

\* No Bearer item, or a second one, is an error.
FindBearer ==
    LET bearers == {i \in DOMAIN items : IsBearer(items[i])}
    IN  /\ reader = "bearer"
        /\ IF Cardinality(bearers) # 1
           THEN EndWith("error") /\ UNCHANGED <<range, found, items>>
           ELSE \E first \in bearers :
                    /\ items' = [items EXCEPT ![first] = WithoutBearer(@)]
                    /\ found' = first /\ range' = [range EXCEPT !.location = 1]
                    /\ reader' = "parameters"
        /\ UNCHANGED <<header, meant, key, params>>

Matches == FirstMatch(items[found], range.location)

\* One match of enumerateMatchesInString:; a later value replaces an earlier one.
ExtractParameter ==
    /\ reader = "parameters"
    /\ \E match \in Matches :
        /\ params' = IF match.value = <<>> THEN params ELSE (match.name :> match.value) @@ params
        /\ range' = [range EXCEPT !.location = match.next]
    /\ UNCHANGED <<header, meant, reader, found, key, items>>

\* The Bearer item and those that follow it, up to one that is no parameter.
MoreParameters_AllItems == found < Len(items)

MoreParameters ==
    found < Len(items) /\ IsParameter(items[found]) /\ IsParameter(items[found + 1])

NextItem ==
    /\ reader = "parameters" /\ Matches = {} /\ MoreParameters
    /\ found' = found + 1 /\ range' = [range EXCEPT !.location = 1]
    /\ UNCHANGED <<header, meant, reader, key, params, items>>

InitWithParameters ==
    /\ reader = "parameters" /\ Matches = {} /\ ~MoreParameters
    /\ EndWith(IF NamesAuthority(params) THEN "returned" ELSE "error")
    /\ UNCHANGED <<header, meant, range, found, key, params, items>>

---------------------------------------------------------------------------

Reading ==
    \/ HandlePKeyAuthChallenge \/ EndOfHeader \/ MalformedKey \/ ReadKey
    \/ ReadPlainValue \/ FindQuote \/ ReadQuotedValue
    \/ SkipQuoted \/ CutAtComma \/ OtherSymbol \/ ItemsRead
    \/ FindBearer \/ ExtractParameter \/ NextItem \/ InitWithParameters

Endings == {"returned", "nil", "error", "raised"}

\* The reader has returned, or the exception has left it.
Ended == reader \in Endings /\ UNCHANGED readerVars

ReaderNext == Reading \/ Ended

ReaderSpec == ReaderInit /\ [][ReaderNext]_readerVars

\* A reader runs on its own thread and is never blocked.
FairReaderSpec == ReaderSpec /\ WF_readerVars(Reading)

---------------------------------------------------------------------------
(* Properties *)

ReaderTypeOK ==
    /\ reader \in {"pkeyauth", "key", "plain", "quote", "quoted", "items", "bearer", "parameters"}
              \cup Endings
    /\ range.location \in Nat /\ range.length \in 0..Word - 1 /\ found \in Nat
    /\ \A name \in DOMAIN params : params[name] \in Seq(STRING)

\* A list of fields in the form the comment above parseAuthHeader: describes (ADWebAuthResponse.m
\* 60-64), with commas, spaces and = in the quoted values, with and without white before a name, is
\* read as what the server meant; and the parameters of the only Bearer challenge among others
\* (extractChallengeParameters:, initInternalWithParameters:) are those of its own fields, an error
\* being left when there is no such challenge or no authority in it.
ServerIsUnderstood ==
    meant # <<>> /\ reader \in Endings =>
        IF meant \in PKeyAuthLists
        THEN reader = "returned" /\ params = JoinedValues(meant)
        ELSE LET readable == /\ Cardinality(Bearers(meant)) = 1
                             /\ NamesAuthority(BearerValues(meant))
             IN  /\ reader = IF readable THEN "returned" ELSE "error"
                 /\ readable => params = BearerValues(meant)

\* The indexes kept by hand never leave the header (an NSRangeException): whatever follows the word
\* PKeyAuth, the reader raises only on a header that ends there or that has nothing after an =
\* (ADWebAuthResponse.m 126, 330), and the reader of a resource's challenge never does.
RaisesOnlyAtTheEnd ==
    reader = "raised" => header = <<>> \/ Last(header) = "="

\* A range that ends where the text ends, unless it begins beyond that.
EndsWith(text, r) ==
    /\ r.location \in Nat \ {0} /\ r.length \in 0..Word - 1
    /\ r.location <= Len(text) + 1 => r.location - 1 + r.length = Len(text)

\* What is true of the indexes of parseAuthHeader: at each of its places, of which
\* RaisesOnlyAtTheEnd follows: only at the head of the loop may the range have left the header; a
\* value begins in it, and the quote that ends it is not before that.
IndexInv ==
    reader \in {"pkeyauth", "key", "plain", "quote", "quoted"} =>
        /\ header \in Seq(STRING) /\ Len(header) < Word
        /\ EndsWith(header, range) /\ found \in Nat
        /\ reader = "plain" => range.location <= Len(header)
        /\ reader = "quote" => range.location <= Len(header) + 1 /\ found >= range.location
        /\ reader = "quoted" => found \in range.location..Len(header)

\* The same of the indexes of the other reader: an item is cut from what lies between two of its
\* positions in the header, the parameters are taken from items that are there.
ItemsInv ==
    /\ reader \in {"items", "bearer", "parameters"} =>
         range \in [location : Nat \ {0}, length : Nat]
    /\ reader = "items" =>
         /\ header \in Seq(STRING) /\ items \in Seq(Seq(STRING))
         /\ found \in range.location..Len(header) + 1
    /\ reader = "bearer" => items \in Seq(Seq(STRING))
    /\ reader = "parameters" => Len(items) \in Nat /\ found \in 1..Len(items)

\* No loop of the readers comes back to where it was: parseAuthHeader: only begins a pass inside
\* the header and ends it further on, its search for a quote moves on unless it has found an escaped
\* one, extractItems: takes the next symbol, and parameters are looked for behind the last match or
\* in the next item.
LoopsMoveOn ==
    /\ reader \in {"key", "plain", "quoted"} /\ reader' \in {"key", "plain", "quote"} =>
         range'.location > range.location /\ range.location <= Len(header)
    /\ reader = "quote" /\ reader' = "quote" => found' \in found + 1..Len(header)
    /\ reader = "items" /\ reader' = "items" => found' \in found + 1..Len(header) + 1
    /\ reader = "parameters" /\ reader' = "parameters" =>
         \/ found' \in found + 1..Len(items)
         \/ found' = found /\ range'.location > range.location

\* Whatever a step changes is progress: of all loops only the search for a quote can go on for
\* ever, where it changes nothing.
ReadersMoveOn == [][LoopsMoveOn]_readerVars

EscapedQuote == \E i \in 1..Len(header) - 1 : header[i] = "\\" /\ header[i + 1] = Quote

\* Both readers come to an end on every header in which no quote follows a backslash.
ReadersEnd == ~EscapedQuote ~> reader \in Endings

\* "It also will allow commented out quotation marks" (ADWebAuthResponse.m 66-67): a reader that
\* has come to such a quotation mark comes to an end.
EscapedQuotesAllowed == (reader = "quote" /\ EscapedQuote) ~> reader \in Endings
=============================================================================
