----------------------------- MODULE CustomFields -----------------------------
(***************************************************************************)
(* One custom field under its key and its values on items:                 *)
(* packages/core/src/services/custom-fields.ts.  Every operation is one    *)
(* transaction.                                                            *)
(*                                                                         *)
(* A row of field_values does not say what type it is of.  The type of the *)
(* field picked the column when the value was written, and picks it again  *)
(* when it is read; several types share a column.  A slot is an item and   *)
(* an ordinal; the group of a slot is left out, being one more part of its *)
(* key.  A pattern, a minimum and a maximum are left out too: with choices *)
(* and target types they are the config a value is held against once.      *)
(***************************************************************************)
EXTENDS Naturals

CONSTANTS Holders, HolderTypes, Options

\* Types by the column they use, with the config of each: choices, or types of targets.
FieldTypes == {"choice", "url", "item_reference"}
ColumnOf(type) == IF type = "item_reference" THEN "value_item_id" ELSE "value_text"
Configs(type) == IF type = "choice" THEN SUBSET Options
                 ELSE IF type = "item_reference" THEN SUBSET HolderTypes ELSE {{}}
Contents(type) == IF type = "item_reference" THEN Holders ELSE Options

VARIABLES
  field,     \* the field's row
  slot,      \* slot[h][n]: the row of item h at ordinal n; as is history, the type it was written as
  typeOf     \* item_type

fieldVars == <<field, slot, typeOf>>

Ordinals == 0 .. 1
NoField == [type |-> "none", config |-> {}, applies |-> {}, repeatable |-> FALSE]
NoRow == [column |-> "none", of |-> "none", as |-> "none"]
BlankRow == [NoRow EXCEPT !.column = "is_blank"]
Row(type, content) == [column |-> ColumnOf(type), of |-> content, as |-> type]

SlotRows == {NoRow, BlankRow} \cup UNION {{Row(t, c) : c \in Contents(t)} : t \in FieldTypes}
FieldRows == UNION {[type : {t}, config : Configs(t), applies : SUBSET HolderTypes,
                     repeatable : BOOLEAN] : t \in FieldTypes}

FieldsTypeOK == /\ field \in FieldRows \cup {NoField}
                /\ slot \in [Holders -> [Ordinals -> SlotRows]]
                /\ typeOf \in [Holders -> HolderTypes]

FieldsInit == /\ field = NoField
              /\ slot = [h \in Holders |-> [n \in Ordinals |-> NoRow]]
              /\ typeOf \in [Holders -> HolderTypes]

-----------------------------------------------------------------------------
Filled == {at \in Holders \X Ordinals : slot[at[1]][at[2]] # NoRow}

\* define
DefineField(row) == /\ field = NoField
                    /\ field' = row
                    /\ UNCHANGED <<slot, typeOf>>

\* updateField: neither key nor type (CF1); what the values hold is not asked, but for FV3.
UpdateField(config, applies, repeatable) ==
  /\ field # NoField
  /\ field.repeatable /\ ~repeatable => \A at \in Filled : at[2] = 0
  /\ field' = [field EXCEPT !.config = config, !.applies = applies, !.repeatable = repeatable]
  /\ UNCHANGED <<slot, typeOf>>

\* Mutant of RemoveField: a field with values can be removed, and its values stay.
RemoveFilledField == /\ field # NoField
                     /\ field' = NoField
                     /\ UNCHANGED <<slot, typeOf>>

\* CF2.
RemoveField == /\ field # NoField /\ Filled = {}
               /\ field' = NoField
               /\ UNCHANGED <<slot, typeOf>>

\* The checks of setValue on the slot, and those of encode on the content.
Takes(h, n) == /\ field # NoField
               /\ n > 0 => field.repeatable
               /\ field.applies = {} \/ typeOf[h] \in field.applies

Allows(content) == \/ field.config = {}
                   \/ field.type = "choice" /\ content \in field.config
                   \/ field.type = "item_reference" /\ typeOf[content] \in field.config

SetValue(h, n, content) == /\ Takes(h, n) /\ Allows(content)
                           /\ slot' = [slot EXCEPT ![h][n] = Row(field.type, content)]
                           /\ UNCHANGED <<field, typeOf>>

SetBlank(h, n) == /\ Takes(h, n)
                  /\ slot' = [slot EXCEPT ![h][n] = BlankRow]
                  /\ UNCHANGED <<field, typeOf>>

ClearValue(h, n) == /\ field # NoField /\ slot[h][n] # NoRow
                    /\ slot' = [slot EXCEPT ![h][n] = NoRow]
                    /\ UNCHANGED <<field, typeOf>>

\* updateItem of library.ts, for the type alone: the values stay.
ChangeType(h, type) == /\ typeOf' = [typeOf EXCEPT ![h] = type]
                       /\ UNCHANGED <<field, slot>>

FieldsNext ==
  \/ \E row \in FieldRows : DefineField(row)
  \/ \E config \in Configs(field.type), applies \in SUBSET HolderTypes, repeatable \in BOOLEAN :
        UpdateField(config, applies, repeatable)
  \/ RemoveField
  \/ \E h \in Holders, n \in Ordinals :
        \/ \E content \in Contents(field.type) : SetValue(h, n, content)
        \/ SetBlank(h, n) \/ ClearValue(h, n)
  \/ \E h \in Holders, type \in HolderTypes : ChangeType(h, type)

-----------------------------------------------------------------------------
(* Properties *)

\* decodeContent: what the field's type finds in the columns of a row.
Decoded(row) == [type |-> field.type, value |-> IF row.column = ColumnOf(field.type) THEN row.of
                                                ELSE "null"]

\* Every value has its field, at an ordinal the field has (FV3), and is read as the
\* type and the content it was written as (FV1, CF1, CF2).
ReadsAsWritten ==
  \A at \in Filled : LET row == slot[at[1]][at[2]] IN
    /\ field # NoField /\ (at[2] > 0 => field.repeatable)
    /\ row # BlankRow => Decoded(row) = [type |-> row.as, value |-> row.of]
=============================================================================
