----------------------------- MODULE MCEvidence -----------------------------
EXTENDS Evidence

A == 65
B == 66

title(slotCount, accountWidth, propertyWidth, padding) ==
    [kind |-> "title", padding |-> padding, account_width |-> accountWidth,
     property_id_width |-> propertyWidth, owner_slots |-> slotCount, rest_widths |-> <<1, 2, 1>>]

record(fields) == [kind |-> "record", padding |-> <<Pad>>, account_width |-> 2, fields |-> fields]

field(name, width) == [key |-> name, width |-> width]

titleFile   == title(2, 2, 3, <<Pad>>)
incomeFile  == record(<<field(KEY_MONTHLY_INCOME, 2)>>)
tenancyFile == record(<<field(KEY_PROPERTY_ID, 3), field(KEY_TENANT, 2), field(KEY_RECORD_DATE, 1)>>)

\* The layouts of the policy; one of the same length as the income's with another key;
\* titles with one and three slots, other padding and a length of three digits; and
\* files that are refused.
MC_LayoutFiles ==
    { titleFile, incomeFile, tenancyFile, record(<<field(KEY_TENANT, 2)>>),
      title(1, 1, 2, <<Pad>>), title(3, 1, 2, <<Zero>>), title(2, 45, 2, <<Pad>>), title(1, 2, 2, <<Quote>>),
      title(0, 1, 2, <<Pad>>), title(1, 1, 2, <<>>), title(1, 1, 2, <<200>>), title(1, 0, 2, <<Pad>>),
      record(<<field(KEY_TENANT, 1), field(KEY_TENANT, 2)>>),
      record(<<field(KEY_ACCOUNT, 1)>>), record(<<>>) }

MC_PolicyLayout ==
    [p \in Phases |-> CASE p = "register" -> titleFile [] p = "apply" -> incomeFile [] p = "settle" -> tenancyFile]

MC_Prefix(l) ==
    CASE l.kind = "title" -> IF l.padding = <<Pad>> THEN "/title/" ELSE "/deed/"
      [] l.kind = "record" -> IF l = tenancyFile THEN "/tenancy/" ELSE "/income"

people     == { <<>>, <<A>>, <<A, B>> }
properties == { <<A, A>>, <<A, A, B>> }

\* Values that fit, end in or consist of padding, are too long, or would break the
\* template.
texts == { <<>>, <<A>>, <<B, A>>, <<A, Pad>>, <<A, B, A, B>>, <<Quote>>, <<A, Backslash>>, <<Control>>, <<200>> }

\* Incomes of 0, 5, 6 and 99, and two that are no number.
incomes == { <<48, 48>>, <<48, 53>>, <<48, 54>>, <<57, 57>>, <<57>>, <<A, 48>> }

titles(accounts, ids, owners, rest) ==
    {[account |-> a, property_id |-> p, subject |-> p, owners |-> o, rest |-> r]
        : a \in accounts, p \in ids, o \in owners, r \in rest}

\* No owner to one more than the slots.
ownerLists ==
    {<<>>, << <<Quote>> >>, << <<A>>, <<B>>, <<A>> >>, << <<A>>, <<B>>, <<A>>, <<B>> >>}
    \cup {<<q>> : q \in people} \cup {<<q, s>> : q, s \in people}

MC_Views(l) ==
    CASE l.kind = "title" ->
            titles(people, properties \cup {<<A>>}, ownerLists, {<< <<>>, <<A, B>>, <<A>> >>})
            \cup titles(texts, texts, {<< <<A>> >>}, {<< <<>>, <<>>, <<>> >>})
            \cup titles({<<A>>}, {<<A>>}, {<< <<A>> >>}, {<< <<A, A>>, <<>>, <<>> >>})
      [] l.kind = "record" ->
            [account : people, subject : {<<>>}, values : {<<i>> : i \in incomes}]
            \cup [account : texts, subject : {<<>>}, values : {<<t>> : t \in texts}]
            \cup [account : {<<A>>}, subject : {<<A>>, <<Pad>>},
                  values : {<<p, t, <<d>> >> : p \in properties, t \in people, d \in {Zero + 3, Zero + 4, A}}]
            \cup [account : {<<A>>}, subject : {<<A>>}, values : {<<t, u, w>> : t, u, w \in texts}]
            \cup [account : people, subject : {<<>>}, values : {<<t, u>> : t, u \in people}]
      [] OTHER -> {}

packed(text) == PackBytes(pad(titleFile, text, 2))
propertyWord(p) == word(titleFile, p, 3)

\* Amounts and days that are just reached, their bounds, and aliases modulo R.
MC_Claims ==
    {[phase |-> "register", subject |-> s, property |-> propertyWord(p)] : s, p \in properties}
    \cup {[phase |-> "apply", cB |-> Poseidon(packed(a), 0, k), amount |-> m]
            : a \in people, k \in {0, 1}, m \in {0, 1, 2, 3, 7, 8, 33, R, R + 2}}
    \cup {[phase |-> "settle", subject |-> <<s>>, property |-> propertyWord(p),
           cB |-> Poseidon(packed(a), 1, k), day |-> d]
            : s \in {A, Pad}, p \in properties, a \in people, k \in {0, 1}, d \in {3, 4, DAY_SIZE, R + 3}}
=============================================================================
