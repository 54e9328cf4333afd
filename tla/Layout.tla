------------------------------- MODULE Layout -------------------------------
(***************************************************************************)
(* The fixed layouts of the registry's responses: the title record          *)
(* (pprev-types/src/layout.rs) and the eligibility and tenancy records      *)
(* (record.rs).  The registry renders a record into a response.  The prover *)
(* and the policy verifier never see that rendering: they load the same     *)
(* layout file, render an empty record, and take every byte range from it.  *)
(*                                                                          *)
(* A response is a sequence of bytes.  A JSON name and a fixed piece of the *)
(* head stand for one byte each, numbered from 300; values are spelt.       *)
(***************************************************************************)
EXTENDS Integers, Sequences, SequencesExt

CONSTANTS
    LayoutFiles,   \* contents of the layout files that may be configured
    Views(_)       \* what the registry may be asked to render under a layout

VARIABLES
    layout,    \* the layout the registry and its readers have loaded, or NoLayout
    shape,     \* what the readers derived from it at start
    view,      \* account and record of the last response
    response   \* its bytes; <<>> while there is none or rendering failed

vars == <<layout, shape, view, response>>

Control == 10
Pad == 32
Quote == 34
Comma == 44
Zero == 48
Colon == 58
ListOpen == 91
Backslash == 92
ListClose == 93
Open == 123
Close == 125

KEY_ACCOUNT == 301
KEY_RECORD == 302
KEY_PROPERTY_ID == 303
KEY_OWNERS == 304
KEY_ENCUMBRANCE == 305
KEY_ASSESSED_VALUE == 306
KEY_RECORD_DATE == 307
KEY_MONTHLY_INCOME == 308
KEY_TENANT == 309
STATUS_LINE == 401
CONTENT_TYPE == 402
CRLF == 403
CONTENT_LENGTH == 404
CONNECTION == 405

NoLayout == [kind |-> "none"]
Err == <<>>

\* Values are bytes; a JSON name is none.
Byte == 0..255
Text == Seq(Byte)
Names == 301..399

TitleLayout == [kind : {"title"}, padding : Text, account_width : Nat, property_id_width : Nat,
                owner_slots : Nat, rest_widths : [1..3 -> Nat]]
RecordLayout == [kind : {"record"}, padding : Text, account_width : Nat,
                 fields : Seq([key : Names, width : Nat])]

\* An account, the subject of the request, and the registry's record.
TitleView == [account : Text, subject : Text, property_id : Text, owners : Seq(Text),
              rest : [1..3 -> Text]]
RecordView == [account : Text, subject : Text, values : Seq(Text)]

ASSUME LayoutAssumption ==
    /\ LayoutFiles \subseteq TitleLayout \cup RecordLayout
    /\ \A l \in LayoutFiles :
        Views(l) \subseteq (IF l.kind = "title" THEN TitleView ELSE RecordView)

-----------------------------------------------------------------------------
(* Loading a layout file.                                                  *)

paddingIsOneAscii(l) == Len(l.padding) = 1 /\ l.padding[1] < 128

validTitle(l) ==
    /\ paddingIsOneAscii(l) /\ l.owner_slots > 0 /\ l.account_width > 0
    /\ l.property_id_width > 0 /\ \A i \in 1..3 : l.rest_widths[i] > 0

validRecord(l) ==
    /\ paddingIsOneAscii(l) /\ l.account_width > 0 /\ l.fields # <<>>
    /\ \A i \in DOMAIN l.fields :
        /\ l.fields[i].width > 0
        /\ l.fields[i].key \notin {KEY_ACCOUNT, KEY_RECORD}
        /\ \A j \in 1..(i - 1) : l.fields[j].key # l.fields[i].key

valid(l) == IF l.kind = "title" THEN validTitle(l) ELSE validRecord(l)

-----------------------------------------------------------------------------
(* Rendering.  A writer appends pieces and reports where each landed.      *)

\* Mutant of fits: quotes and backslashes are not refused.
fitsUnescaped(value, width) ==
    /\ \A i \in DOMAIN value : value[i] < 128 /\ value[i] # Control
    /\ Len(value) <= width

\* pad_value does not refuse.
fits(value, width) ==
    /\ \A i \in DOMAIN value : value[i] < 128 /\ value[i] \notin {Quote, Backslash, Control}
    /\ Len(value) <= width

pad(l, value, width) == value \o [i \in 1..(width - Len(value)) |-> l.padding[1]]

key(name) == <<Quote, name, Quote, Colon>>
string(value) == <<Quote>> \o value \o <<Quote>>
member(name, value) == key(name) \o string(value)

\* What is written before each item of a list, and the list: commas between the items.
before(items) ==
    LET written[k \in 1..Len(items)] ==
            IF k = 1 THEN <<>> ELSE written[k - 1] \o items[k - 1] \o <<Comma>>
    IN written

listed(items) == before(items)[Len(items)] \o items[Len(items)]

\* The owner in slot k, empty beyond the record's owners.
owner(v, k) == IF k \in DOMAIN v.owners THEN v.owners[k] ELSE <<>>

titleRenders(l, v) ==
    /\ Len(v.owners) <= l.owner_slots /\ fits(v.account, l.account_width)
    /\ fits(v.property_id, l.property_id_width)
    /\ \A k \in DOMAIN v.owners : fits(v.owners[k], l.account_width)
    /\ \A k \in 1..3 : fits(v.rest[k], l.rest_widths[k])

recordRenders(l, v) ==
    /\ Len(v.values) = Len(l.fields) /\ fits(v.account, l.account_width)
    /\ \A i \in DOMAIN v.values : fits(v.values[i], l.fields[i].width)

renders(l, v) == IF l.kind = "title" THEN titleRenders(l, v) ELSE recordRenders(l, v)

\* What the writer holds when it comes to a key of the template, or to its list.
toAccount == <<Open>>
toRecord(l, v) == toAccount \o member(KEY_ACCOUNT, pad(l, v.account, l.account_width)) \o <<Comma>>
toFields(l, v) == toRecord(l, v) \o key(KEY_RECORD) \o <<Open>>

toOwners(l, v) ==
    toFields(l, v) \o member(KEY_PROPERTY_ID, pad(l, v.property_id, l.property_id_width)) \o <<Comma>>
toSlots(l, v) == toOwners(l, v) \o key(KEY_OWNERS) \o <<ListOpen>>
slots(l, v) == [k \in 1..l.owner_slots |-> string(pad(l, owner(v, k), l.account_width))]
toEncumbrance(l, v) == toSlots(l, v) \o listed(slots(l, v)) \o <<ListClose, Comma>>
toAssessedValue(l, v) ==
    toEncumbrance(l, v) \o member(KEY_ENCUMBRANCE, pad(l, v.rest[1], l.rest_widths[1])) \o <<Comma>>
toRecordDate(l, v) ==
    toAssessedValue(l, v) \o member(KEY_ASSESSED_VALUE, pad(l, v.rest[2], l.rest_widths[2])) \o <<Comma>>
titleBody(l, v) ==
    toRecordDate(l, v) \o member(KEY_RECORD_DATE, pad(l, v.rest[3], l.rest_widths[3]))
    \o <<Close, Close>>

members(l, v) ==
    [i \in 1..Len(l.fields) |-> member(l.fields[i].key, pad(l, v.values[i], l.fields[i].width))]
recordBody(l, v) == toFields(l, v) \o listed(members(l, v)) \o <<Close, Close>>

body(l, v) == IF l.kind = "title" THEN titleBody(l, v) ELSE recordBody(l, v)

\* A length in decimal.
digits(length) ==
    LET decimal[n \in 0..length] ==
            IF n < 10 THEN <<Zero + n>> ELSE decimal[n \div 10] \o <<Zero + (n % 10)>>
    IN decimal[length]

head(length) ==
    <<STATUS_LINE, CRLF, CONTENT_TYPE, CRLF, CONTENT_LENGTH>> \o digits(length)
    \o <<CRLF, CONNECTION, CRLF, CRLF>>

render_response(l, v) == head(Len(body(l, v))) \o body(l, v)

-----------------------------------------------------------------------------
(* What a reader derives from the layout.                                  *)

\* The record of the template.
blank(l) ==
    IF l.kind = "title"
    THEN [account |-> <<>>, property_id |-> <<>>, owners |-> <<>>, rest |-> << <<>>, <<>>, <<>> >>]
    ELSE [account |-> <<>>, values |-> [i \in 1..Len(l.fields) |-> <<>>]]

\* Mutant of revealed: from the first key to the last, in one piece.
revealedSpan(status, contentType, keys) ==
    <<status, contentType, [start |-> keys[1].start, end |-> Last(keys).end]>>

revealed(status, contentType, keys) == <<status, contentType>> \o keys

\* 0-based, without its end, as Rust's Range; shift is the length of the head.
landing(shift, written, piece) ==
    [start |-> shift + Len(written), end |-> shift + Len(written) + Len(piece)]
keyAt(shift, written, name) == landing(shift, written, key(name))
valueAt(shift, written, name, value) == landing(shift, written \o key(name) \o <<Quote>>, value)

accountAt(l, v, shift) ==
    valueAt(shift, toAccount, KEY_ACCOUNT, pad(l, v.account, l.account_width))

slotAt(l, v, shift, k) ==
    landing(shift, toSlots(l, v) \o before(slots(l, v))[k] \o <<Quote>>, pad(l, owner(v, k), l.account_width))

titleKeys(l, v, shift) ==
    <<keyAt(shift, toAccount, KEY_ACCOUNT), keyAt(shift, toRecord(l, v), KEY_RECORD),
      keyAt(shift, toFields(l, v), KEY_PROPERTY_ID), keyAt(shift, toOwners(l, v), KEY_OWNERS),
      keyAt(shift, toEncumbrance(l, v), KEY_ENCUMBRANCE),
      keyAt(shift, toAssessedValue(l, v), KEY_ASSESSED_VALUE),
      keyAt(shift, toRecordDate(l, v), KEY_RECORD_DATE)>>

titleHidden(l, v, shift) ==
    <<accountAt(l, v, shift),
      [start |-> slotAt(l, v, shift, 1).start, end |-> slotAt(l, v, shift, l.owner_slots).end],
      valueAt(shift, toFields(l, v), KEY_PROPERTY_ID, pad(l, v.property_id, l.property_id_width))>>

toField(l, v, i) == toFields(l, v) \o before(members(l, v))[i]

recordKeys(l, v, shift) ==
    <<keyAt(shift, toAccount, KEY_ACCOUNT), keyAt(shift, toRecord(l, v), KEY_RECORD)>>
    \o [i \in 1..Len(l.fields) |-> keyAt(shift, toField(l, v, i), l.fields[i].key)]

recordHidden(l, v, shift) ==
    <<accountAt(l, v, shift)>>
    \o [i \in 1..Len(l.fields) |->
            valueAt(shift, toField(l, v, i), l.fields[i].key, pad(l, v.values[i], l.fields[i].width))]

statusLine == landing(0, <<>>, <<STATUS_LINE>>)
contentTypeLine == landing(0, <<STATUS_LINE, CRLF>>, <<CONTENT_TYPE>>)

shapeOf(l) ==
    LET v       == blank(l)
        isTitle == l.kind = "title"
        shift   == Len(head(Len(body(l, v))))
    IN [template |-> render_response(l, v),
        len      |-> shift + Len(body(l, v)),
        revealed |-> revealed(statusLine, contentTypeLine,
                              IF isTitle THEN titleKeys(l, v, shift) ELSE recordKeys(l, v, shift)),
        hidden   |-> IF isTitle THEN titleHidden(l, v, shift) ELSE recordHidden(l, v, shift),
        slot_offsets |-> IF isTitle
                         THEN [k \in 1..l.owner_slots |->
                                slotAt(l, v, shift, k).start - slotAt(l, v, shift, 1).start]
                         ELSE <<>>]

\* Position of the field with a key; the layout has it.
index_of(l, name) == CHOOSE i \in DOMAIN l.fields :
    l.fields[i].key = name /\ \A j \in 1..(i - 1) : l.fields[j].key # name

\* PhiRParams::from_layout: the parameters of phi_R's circuit.
owner_stride(l, sh) ==
    IF Len(sh.slot_offsets) > 1 THEN sh.slot_offsets[2] - sh.slot_offsets[1] ELSE l.account_width + 3

owners_len(sh) == sh.hidden[2].end - sh.hidden[2].start

-----------------------------------------------------------------------------
Init == layout = NoLayout /\ shape = NoLayout /\ view = NoLayout /\ response = Err

\* from_json and shape, by the registry and by each reader at its start.
Load(l) ==
    /\ layout = NoLayout /\ valid(l)
    /\ layout' = l /\ shape' = shapeOf(l)
    /\ UNCHANGED <<view, response>>

\* One exchange: the connection closes after it, and rendering keeps no state.
Answer(v) ==
    /\ layout # NoLayout /\ view = NoLayout /\ renders(layout, v)
    /\ view' = v /\ response' = render_response(layout, v)
    /\ UNCHANGED <<layout, shape>>

\* The registry answers 500: the record does not fit the layout.
Refuse(v) ==
    /\ layout # NoLayout /\ view = NoLayout /\ ~ renders(layout, v)
    /\ view' = v /\ response' = Err
    /\ UNCHANGED <<layout, shape>>

Next == \/ \E l \in LayoutFiles : Load(l)
        \/ \E v \in Views(layout) : Answer(v) \/ Refuse(v)

Spec == Init /\ [][Next]_vars

-----------------------------------------------------------------------------
(* Properties.                                                             *)

answered == response # Err
read(range) == SubSeq(response, range.start + 1, range.end)
positions(range) == (range.start + 1)..range.end
ofTitle == layout.kind = "title"

\* A reader that takes the ranges of the empty record finds in every response the
\* account, the property or the fields, and every owner, padded and nothing else.
ReadersFindValues == answered =>
    /\ Len(response) = shape.len
    /\ read(shape.hidden[1]) = pad(layout, view.account, layout.account_width)
    /\ ofTitle =>
        /\ read(shape.hidden[3]) = pad(layout, view.property_id, layout.property_id_width)
        /\ \A k \in DOMAIN shape.slot_offsets :
            LET at == shape.hidden[2].start + shape.slot_offsets[k]
            IN read([start |-> at, end |-> at + layout.account_width])
               = pad(layout, owner(view, k), layout.account_width)
    /\ ~ ofTitle => \A i \in DOMAIN layout.fields :
        read(shape.hidden[i + 1]) = pad(layout, view.values[i], layout.fields[i].width)

\* What a presentation reveals is the same for every record, and it shows no byte of
\* a value, committed or not.
RevealsNoValue == answered =>
    /\ \A i \in DOMAIN shape.revealed :
        /\ read(shape.revealed[i])
           = SubSeq(shape.template, shape.revealed[i].start + 1, shape.revealed[i].end)
        /\ \A j \in DOMAIN shape.hidden :
            positions(shape.revealed[i]) \cap positions(shape.hidden[j]) = {}
    /\ \A i, j \in DOMAIN shape.hidden :
        i # j => positions(shape.hidden[i]) \cap positions(shape.hidden[j]) = {}

\* A value never ends its own string: a JSON parser sees the quotes of the template
\* where the template has them, and no others.  validate lets a layout pad with quotes.
QuotesStay == answered /\ layout.padding # <<Quote>> =>
    \A i \in DOMAIN response : response[i] = Quote <=> shape.template[i] = Quote

\* The circuit of phi_R, which counts with one stride, reads the owners and the
\* separators between them.
CircuitFindsOwners == answered /\ ofTitle =>
    LET stride == owner_stride(layout, shape)
        owners == read(shape.hidden[2])
        w      == layout.account_width
    IN /\ stride = w + 3 /\ owners_len(shape) = (layout.owner_slots - 1) * stride + w
       /\ \A k \in 0..(layout.owner_slots - 1) :
            SubSeq(owners, k * stride + 1, k * stride + w) = pad(layout, owner(view, k + 1), w)
       /\ \A k \in 0..(layout.owner_slots - 2) :
            SubSeq(owners, k * stride + w + 1, k * stride + w + 3) = <<Quote, Comma, Quote>>

\* A field asked for by its key is the value behind that key, and no other value is
\* behind it.
KeyNamesItsValue == answered /\ ~ ofTitle =>
    \A f \in DOMAIN layout.fields :
        LET name  == layout.fields[f].key
            at    == shape.hidden[1 + index_of(layout, name)]
        IN /\ read([start |-> at.start - 5, end |-> at.start]) = <<Quote, name, Quote, Colon, Quote>>
           /\ \A i \in DOMAIN response : response[i] = name => i = at.start - 3

\* All who read a response agree on it: by ranges, by the quotes a parser sees, by the
\* circuit's stride and by key (render_response, shape, from_layout, index_of).
ReadersAgree == ReadersFindValues /\ QuotesStay /\ CircuitFindsOwners /\ KeyNamesItsValue
=============================================================================
