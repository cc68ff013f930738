------------------------------ MODULE SqliTable ------------------------------
(***************************************************************************)
(* The fingerprints of sql_keywords in libinjection_sqli_data.h, lines 309 *)
(* to 8675: 8367 words of type 'F', the digit 0 followed by one to five    *)
(* token types in upper case.                                              *)
(*                                                                         *)
(* The table is sorted, so what starts with the same two types is a        *)
(* section of it.  A section is a set of rows, and a row gives for each    *)
(* type that follows the set of its values: the row <<N, O, FN>> stands    *)
(* for the two words that end in NOF and NON.  Sections of the table that  *)
(* differ in few words share rows.                                         *)
(***************************************************************************)
EXTENDS Integers, Sequences

(* The token types, in upper case, as sets of one.                          *)
A == {"A"}
B == {"B"}
C == {"C"}
D == {"1"}
E == {"E"}
F == {"F"}
K == {"K"}
L == {"("}
M == {","}
N == {"N"}
O == {"O"}
P == {":"}
R == {")"}
S == {"S"}
T == {"T"}
U == {"U"}
V == {"V"}
W == {"&"}
Z == {";"}

(* The sets of types that occur more than a few times, named for their      *)
(* members.                                                                 *)
CZ == {"C", ";"}
DN == {"1", "N"}
DV == {"1", "V"}
EF == {"E", "F"}
EN == {"E", "N"}
ET == {"E", "T"}
FK == {"F", "K"}
FL == {"F", "("}
FN == {"F", "N"}
KN == {"K", "N"}
LN == {"(", "N"}
MO == {",", "O"}
NO == {"N", "O"}
NS == {"N", "S"}
OR == {"O", ")"}
OU == {"O", "U"}
OW == {"O", "&"}
SV == {"S", "V"}
UZ == {"U", ";"}
CKZ == {"C", "K", ";"}
DNS == {"1", "N", "S"}
DNV == {"1", "N", "V"}
DSV == {"1", "S", "V"}
FLS == {"F", "(", "S"}
NSV == {"N", "S", "V"}
DFSV == {"1", "F", "S", "V"}
DNSV == {"1", "N", "S", "V"}
FLSV == {"F", "(", "S", "V"}
DFNSV == {"1", "F", "N", "S", "V"}
DFLNSV == {"1", "F", "(", "N", "S", "V"}
DFNRSV == {"1", "F", "N", ")", "S", "V"}
DFKLNSV == {"1", "F", "K", "(", "N", "S", "V"}

-----------------------------------------------------------------------------
(* Rows that several sections share.                                        *)
After_And_DSV ==
    {<<DNSV, CZ \cup U>>, <<DNSV, {"B", "E", "K", "T", "&"}, N>>, <<DSV>>,
     <<E, N>>}
After_And ==
    {<<DN, U, Z>>, <<DNS \cup K, OW, FLSV>>,
     <<DNSV, B \cup K \cup W, DSV \cup FL>>, <<DNSV, OU \cup F, L>>,
     <<DNSV, R, OW \cup C \cup U>>, <<DNSV, UZ, C \cup E>>, <<DNSV, Z, T>>,
     <<DSV \cup E, K, DFLNSV>>, <<DSV, E, KN>>, <<E \cup K \cup L, F, L>>,
     <<E \cup S, DV>>, <<E \cup V, S>>, <<E, DNSV, CKZ \cup O>>, <<E, L, O>>,
     <<F, L, E \cup R>>, <<FK \cup E, L, DFNSV>>, <<K \cup S, OW, DN>>,
     <<K, C>>, <<K, DSV, O>>, <<K, NO, K>>, <<L, DNSV, OR \cup M \cup W>>,
     <<L, E, DFKLNSV \cup O>>, <<S, DV \cup U, CZ>>, <<S, V, O>>,
     <<V, O, F \cup S>>, <<V, S \cup U, CZ>>, <<V, S, O>>}
After_Right_DSV == {<<C>>, <<O, DSV>>}
After_Right ==
    {<<B \cup E \cup W, DNSV, C \cup O>>, <<B \cup O, DNSV, K>>,
     <<B \cup W, DNSV>>, <<B, D, N>>, <<E, K, DFLNSV>>, <<F, L, F>>,
     <<K, B, DFLNSV>>, <<K, DSV, E \cup O>>, <<K, N, C \cup E \cup K>>,
     <<K, U, E>>, <<O, V, O>>, <<OW \cup B, DNSV, CZ \cup U \cup W>>,
     <<OW \cup K, DNSV, UZ \cup B \cup W>>, <<OW \cup U, L, E>>,
     <<OW, DNSV, R>>, <<U, E, DFKLNSV>>, <<W, DNSV, F>>,
     <<Z, ET, DFKLNSV \cup O>>, <<{"B", "E", "K", ",", "O", "&"}, L, DFNSV>>,
     <<{"B", "E", "K", "O", "&"}, F, L>>}
After_Number ==
    {<<SV, CZ>>, <<SV, Z, C>>, <<U, E, CKZ>>, <<U, E>>, <<V, O, FLS>>}
After_Comma ==
    {<<F, L, DFNRSV>>, <<L, DSV, OR>>, <<L, E, DFKLNSV>>, <<L, F, L>>}
After_Semicolon ==
    {<<ET, DNSV, CKZ \cup MO \cup T>>, <<ET, FK, L>>, <<ET, K \cup L, DFSV>>,
     <<ET, L, EN>>, <<N, P, T>>, <<T, DNSV \cup K, FL \cup K \cup O>>,
     <<T, LN, DNSV \cup C>>, <<T, O, L>>, <<T, T, N>>, <<T, Z, C>>, <<T, Z>>}
After_Collate ==
    {<<F, L, DFNRSV>>, <<L, F, L>>, <<L, NSV, OR>>, <<S \cup T, O, DFLNSV>>,
     <<SV \cup T, U, E>>, <<V, O, FLS>>}
After_Group_DSV == {<<DNSV>>, <<L, N, O>>}
After_Group ==
    {<<DNS, O, SV>>, <<DNSV, B \cup K \cup W, DFLNSV>>, <<DNSV, CZ>>,
     <<DNSV, MO, FL>>, <<DNSV, U, E \cup L>>, <<DNSV, Z, C>>, <<E, K, L>>,
     <<EF, L, DFNSV>>, <<F, L, R>>, <<L, DSV, OR>>, <<L, F, L>>, <<S, O, DN>>,
     <<V, O, S>>}
After_Expr_DSV ==
    {<<DNSV, C>>, <<FK \cup U, L, DFNSV>>, <<K \cup L \cup U, F, L>>,
     <<K, DNSV, CZ \cup T \cup U>>, <<K, DSV, O>>, <<K, LN, E>>, <<K, O, K>>,
     <<K, U, DSV \cup FL \cup E>>, <<N, E, N>>}
After_Expr ==
    {<<DNS, O, V>>, <<DNSV, O \cup T, FLS>>, <<DNSV, T, DNV>>, <<DNSV, U, E>>,
     <<DNSV, Z, T>>, <<F, L, R>>, <<L, DNSV, OR>>, <<O, K, N>>, <<S, O, DN>>,
     <<U, DSV, MO \cup C>>, <<U, E, FK>>}
After_Function ==
    {<<L, DSV, OR>>, <<L, E \cup R, DNSV \cup FK>>, <<L, EF, L>>, <<L, R, OU>>}
After_Function_DSV == {<<L, D, N>>, <<L, N, OR \cup M>>}
After_Keyword ==
    {<<D, O, V>>, <<DNSV \cup R, B \cup E \cup W, DSV \cup FL>>,
     <<DNSV, U, E \cup L>>, <<DNSV, Z, ET \cup C>>, <<DNSV>>,
     <<DSV \cup R \cup U, E, DFKLNSV>>, <<DSV, O, FLS>>, <<F, L, DFNRSV>>,
     <<L \cup R, F, L>>, <<R, O, FL>>, <<R, UZ, E>>, <<R, Z, T>>,
     <<S, OW \cup B, DNV>>}
After_Keyword_DSV ==
    {<<DNSV \cup R, B \cup E \cup W, N>>, <<DNSV, CZ>>, <<L, NSV, OR>>}
After_Op_DNS ==
    {<<SV, A \cup T \cup U, FLSV \cup T>>, <<SV, CZ \cup U>>,
     <<SV, K, B \cup R>>, <<SV, M, FL>>, <<SV, R \cup U, CKZ \cup EF \cup O>>,
     <<SV, {"B", "(", "T", "&", ";"}, E>>,
     <<SV, {"B", "E", "K", "T", "&"}, DFLNSV>>,
     <<SV, {"E", "K", "(", ")", "&"}, U>>,
     <<V, E \cup S \cup U, DV \cup FL \cup O>>,
     <<V, OW \cup E, FLS \cup K \cup U>>, <<V, Z, C \cup N \cup T>>}
After_Op ==
    {<<F, L, DFNRSV \cup E>>, <<K \cup L \cup S, F, L>>, <<K, DSV, C \cup O>>,
     <<K, N, C>>, <<K, OW, L>>, <<L, DNSV, OR \cup M \cup W>>,
     <<L, E, DFKLNSV \cup E \cup O>>, <<S \cup U, L, E>>,
     <<S, E \cup U \cup W, D \cup K>>, <<S, E \cup V, FLS \cup OU>>,
     <<S, {"1", "E", "K", "&"}, N \cup U>>,
     <<S, {"A", "B", "1", "E", "K", "T", "U", "&"}, FLSV>>, <<U, E, KN>>}
After_Op_DSV == {<<K, OW \cup L, DFNSV>>, <<S, {"B", "T", "&", ";"}, EN>>}
After_Op_DNV ==
    {<<S, R, {"B", "C", "E", "F", "K", ",", "O", "U", "&", ";"}>>,
     <<S, UZ, ET \cup C>>}
After_Tsql ==
    {<<D, O, V>>, <<DSV, L, F>>, <<DSV, O, FLS>>, <<E, DNSV \cup L, N>>,
     <<E, K, DFLNSV>>, <<F, L, N \cup R>>, <<FN \cup E, L, DFSV>>,
     <<L, DNSV, R>>, <<LN \cup E, DNSV, O>>, <<LN \cup E, F, L>>,
     <<N, DNSV, C>>, <<N, ET \cup O, FLSV>>, <<N, ET, DN>>, <<N, K, N>>,
     <<N, N, P>>, <<N, Z, ET \cup N>>, <<S, O, DNV>>, <<T, N, ET \cup KN>>,
     <<V, L, D>>}
After_Union ==
    {<<CZ \cup E>>, <<D, O, SV>>, <<DSV \cup Z, C>>, <<DSV, MO, FL>>,
     <<E \cup K \cup O, L, E>>, <<E, D \cup K \cup L, SV \cup FN \cup O>>,
     <<E, DFNSV \cup CKZ>>,
     <<E, DNSV, {"B", "C", "F", "K", "(", ",", "O", ")", "U", "&", ";"}>>,
     <<E, F, M>>, <<E, FK, CZ \cup L>>, <<E, K \cup L \cup S, DV>>,
     <<E, O \cup V, KN>>, <<E, V, S>>, <<E, Z, C>>,
     <<ET \cup O, N, FLS \cup D>>, <<F, L, DFNRSV>>, <<L, DNSV, OR>>,
     <<L, E, DFKLNSV>>, <<L, F, L>>, <<S, O, DNSV>>, <<T, N, N \cup V>>,
     <<V, O, S>>}
After_Variable ==
    {<<F \cup O, L, DFNSV>>, <<F, L, R>>, <<O, F, L>>,
     <<O, S, DV \cup FL \cup U>>, <<S, CZ>>, <<S, O, DFLNSV>>, <<S, Z, C>>,
     <<U, E, CKZ>>, <<U, E>>}
After_Left == {<<E, F, L>>, <<E, K, FN>>, <<E, N, K>>, <<U, L, E>>}
Expr_DS == {<<R \cup V, CZ>>, <<R \cup V>>, <<V, O, FLS>>, <<V, Z, C>>}
Expr_DV == {<<N, K, N>>, <<N, R, U>>, <<NS \cup R, CZ>>, <<NS, Z, C>>}
Expr_Value ==
    {<<B \cup K \cup W, DSV, OR>>, <<B \cup W, N, OR>>, <<F, L, R>>,
     <<K, DSV, K>>, <<K, N, CKZ \cup R \cup U>>,
     <<O, S, {"B", "1", "F", "K", "(", ",", ")", "U", "V", "&", ";"}>>,
     <<OW \cup UZ \cup K, L, E>>, <<R, K, N>>, <<R, OW, DFLNSV>>, <<R, U, E>>,
     <<R, Z, ET \cup C \cup L>>, <<U, E, DFKLNSV>>,
     <<{"B", "F", "K", ",", "O", "&"}, L, DFNSV>>,
     <<{"B", "K", ",", "O", "&"}, F, L>>}
Expr_DNS ==
    {<<O, SV, {"B", "F", "K", "(", ",", ")", "U", "&", ";"}>>,
     <<O, V, O \cup S>>}

(* The sections for a value and the type after it.                          *)
Number_And == After_And_DSV \cup After_And \cup {<<E, K, U>>, <<E, U, E>>}
Number_Left == After_Left
Number_Right == After_Right_DSV \cup After_Right
Number_Comma == After_Comma \cup {<<L, N, OR>>}
Number_Semicolon == After_Semicolon \cup {<<E, N, E>>, <<ET, K, NO>>}
Number_Collate == After_Collate
Number_Group == After_Group_DSV \cup After_Group
Number_Comment == {<<>>}
Number_Expr == After_Expr_DSV \cup After_Expr
Number_Function == After_Function \cup After_Function_DSV
Number_Keyword == After_Keyword \cup After_Keyword_DSV \cup {<<L, D, O>>}
Number_Name ==
    {<<E, DNSV, C \cup O>>, <<E, L, DFNSV>>, <<L, D, O>>, <<L, SV, OR>>,
     <<R, U, E>>, <<U, E, DFLNSV \cup CKZ>>, <<U, E>>, <<U, L, E>>,
     <<{"E", "(", ",", "&"}, F, L>>}
Number_Op == After_Op_DNS \cup After_Op \cup After_Op_DSV \cup After_Op_DNV \cup
    {<<N \cup V, S, U>>, <<V, F, L>>, <<V, R, B \cup M \cup W>>, <<V>>}
Number_String ==
    {<<F, L, DFNRSV>>, <<U, E, CKZ>>, <<U, E>>, <<V, CZ>>, <<V, O, FLS>>,
     <<V, Z, C>>, <<V>>}
Number_Tsql == After_Tsql
Number_Union == After_Union \cup {<<>>, <<E, N, N>>}
Number_Variable == After_Variable \cup {<<S>>}
Expr_Left ==
    {<<D \cup S, V, OR>>, <<D, N, R>>, <<DNS, O, FLSV>>, <<DNSV \cup E, F, L>>,
     <<DNSV, MO, F>>,
     <<DNSV, R, {"B", "C", "1", "F", "K", ",", "N", "O", "S", "U", "V", "&", ";"}>>,
     <<DNSV, W, DFLNSV>>, <<DV, S, R>>, <<E, DNSV, OR \cup W>>,
     <<E, K, DFLNSV>>, <<EF, L, EN>>, <<F, L, R>>, <<FN \cup E, L, DFSV>>,
     <<N, D, O>>, <<NS, D, R>>, <<S, O, DN>>, <<V, O, L \cup S>>, <<V, S, O>>}
Expr_Number == Expr_DS \cup Expr_DV \cup Expr_Value \cup Expr_DNS \cup
    {<<K, N>>}
Expr_Expr == {<<K, L, F>>, <<L, F, L>>}
Expr_Function ==
    {<<L, DNSV, OR \cup M \cup W>>, <<L, E, DFKLNSV>>, <<L, F, L>>,
     <<L, O, R>>,
     <<L, R, {"B", "1", "F", "K", ",", "N", "O", "S", "U", "V", "&", ";"}>>}
Expr_Keyword ==
    {<<D \cup S, R \cup V>>, <<D \cup S, V, CZ \cup FK \cup O>>,
     <<D, N, CKZ \cup R>>, <<D, N>>, <<D, O, SV>>,
     <<DNSV, B \cup K \cup W, DFLNSV>>, <<DNSV, R, OW \cup CKZ \cup U>>,
     <<DNSV, U, E>>, <<DNSV, UZ \cup F \cup M, L>>, <<DSV, MO, FL>>,
     <<DV, R \cup S>>, <<DV, S, CZ \cup FK>>, <<E \cup O, K, L>>, <<E, L, F>>,
     <<F, L, OR \cup EN>>, <<FN \cup O, L, DFSV>>, <<L, D \cup E, NSV \cup FL>>,
     <<L, DNSV, {"F", "(", ",", "O", ")", "&"}>>, <<L, E \cup S, DV>>,
     <<L, E, K>>, <<L, F, L>>, <<L, N, D>>, <<L, V, S>>, <<N, D, O>>,
     <<N, M, F>>, <<NS, D \cup R>>, <<NS, D, CKZ>>, <<O, K \cup L, N>>,
     <<S, D, F>>, <<S, O, DNSV>>, <<V, O, S>>, <<V, S, O>>}
Expr_Name == Expr_Value \cup Expr_DNS \cup
    {<<D \cup R, Z>>, <<D, O, FLSV>>, <<D, Z, C>>, <<K, N, B \cup M>>,
     <<L, D, O>>, <<L, F, L>>, <<L, SV, OR>>, <<R, C>>, <<R>>}
Expr_Op == {<<K, L, E>>, <<K, N, K>>}
Expr_String == Expr_DS \cup Expr_Value \cup Expr_DNS \cup
    {<<D, CZ>>, <<D, Z, C>>, <<D>>, <<K, N>>, <<O, D, NSV>>,
     <<O, DN, {"B", "F", "K", "(", ",", ")", "U", "&", ";"}>>, <<O, N, D>>}
Expr_Variable == Expr_DV \cup Expr_Value \cup
    {<<K, N>>, <<NS \cup R>>, <<NS, O, FLSV>>, <<S, O, DN>>}
Function_Left ==
    {<<DNS, O, SV>>, <<DNSV, OW \cup M, FL>>,
     <<DNSV, R, {"A", "B", "C", "1", "E", "F", "K", ",", "N", "O", "S", "T", "U", "V", "&", ";"}>>,
     <<DNSV, R>>, <<DNSV, W, DNSV>>, <<E \cup R, F, L>>,
     <<E, DNSV, OR \cup K \cup W>>, <<E, K, DFLNSV \cup O>>, <<E, O, K>>,
     <<EF, L, DNSV \cup EF>>, <<FK, L, R>>, <<K \cup T, M, FL>>,
     <<R, A \cup D, FLSV>>, <<R, A \cup T \cup Z, T>>, <<R, C \cup U>>,
     <<R, D, N>>, <<R, DNSV \cup E, FL \cup OU>>, <<R, K \cup O, U>>,
     <<R, K, R>>, <<R, N, {"1", "E", ",", ")", "&"}>>, <<R, OW \cup E, K>>,
     <<R, S, DV>>,
     <<R, U, {"C", "1", "E", "F", "K", "(", "O", "S", "T", "V", ";"}>>,
     <<R, V, S>>, <<R, {"B", "E", "K", ",", "O", "T", "&"}, DFLNSV>>,
     <<R, {"B", "T", "&", ";"}, EN>>, <<S, O, DN>>, <<V, O, S>>}
Name_And == After_And \cup
    {<<DSV, B \cup T \cup W, N>>, <<DSV, CZ \cup U>>, <<DV>>, <<N, U>>}
Name_Right == After_Right \cup {<<O, SV>>}
Name_Comma == After_Comma \cup {<<L, N, O>>}
Name_Number == After_Number \cup
    {<<O, F \cup S, L>>, <<O, L \cup S, DV \cup F>>, <<O, L, NS>>, <<O, S, U>>,
     <<O, V, FLS \cup OU>>}
Name_Semicolon == After_Semicolon \cup {<<E, K, NO>>, <<ET, N, E>>}
Name_Collate == After_Collate
Name_Group == After_Group \cup {<<DSV>>, <<L, DNSV, OW>>}
Name_Comment == {<<>>}
Name_Expr == After_Expr \cup
    {<<DSV, C>>, <<F \cup U, L, DFNSV>>, <<L \cup U, F, L>>}
Name_Function == After_Function \cup {<<L, N, MO>>}
Name_Keyword == After_Keyword \cup
    {<<D, C>>, <<DV \cup R, B \cup W, N>>, <<L, DSV, OR>>, <<L, N, O>>,
     <<N, B, N>>, <<SV, CZ>>}
Name_Op == After_Op_DNS \cup After_Op \cup After_Op_DNV \cup
    {<<K, L \cup O, DFNSV>>, <<N \cup V, S, U>>, <<V, F, L>>,
     <<V, R, B \cup M \cup W>>}
Name_String == {<<O, DNSV, U>>, <<U, E, CKZ>>, <<U, E>>}
Name_Tsql == After_Tsql
Name_Union == After_Union
String_And == After_And_DSV \cup After_And \cup {<<N>>}
String_Left == After_Left
String_Right == After_Right_DSV \cup After_Right
String_Comma == After_Comma \cup {<<L, N, OR>>}
String_Number == After_Number \cup {<<F, L, DFNRSV>>, <<N, C>>, <<V>>}
String_Semicolon == After_Semicolon \cup {<<ET, K, NO>>, <<ET, N, E>>}
String_Collate == After_Collate
String_Group == After_Group_DSV \cup After_Group
String_Comment == {<<>>}
String_Expr == After_Expr_DSV \cup After_Expr
String_Function == After_Function \cup After_Function_DSV
String_Keyword == After_Keyword \cup After_Keyword_DSV \cup {<<L, D, OR>>}
String_Op == After_Op_DNS \cup After_Op \cup After_Op_DSV \cup
    {<<D, C>>, <<D, E \cup V, FLS \cup OU>>, <<D, E \cup W, KN>>, <<D, K, N>>,
     <<D, L, E>>, <<D, N, {"E", "(", ",", "U", "&"}>>, <<D, S, V>>,
     <<DN, A \cup T \cup U, FLSV \cup T>>, <<DN, K, B \cup R>>, <<DN, M, F>>,
     <<DN, U, K \cup O \cup Z>>, <<DN, UZ>>,
     <<DN, {"B", "E", "K", "T", "U", "&"}, DSV \cup FL>>,
     <<DN, {"B", "T", "&", ";"}, EN>>, <<DNS, UZ, ET \cup C>>,
     <<DNSV, R, {"B", "C", "E", "F", "K", ",", "O", "U", "&", ";"}>>,
     <<DNV, F \cup M, L>>, <<DNV, {"E", "K", "(", "S", "&"}, U>>,
     <<N, D \cup E, OU \cup L \cup V>>, <<N, E, N>>, <<N, L, DSV \cup EF>>,
     <<N, W, K>>, <<SV>>}
String_Tsql == After_Tsql
String_Union == After_Union
String_Variable == After_Variable
Variable_And == After_And_DSV \cup After_And \cup {<<N>>}
Variable_Left == After_Left
Variable_Right == After_Right_DSV \cup After_Right \cup {<<O, N>>}
Variable_Comma == After_Comma \cup {<<L, N, OR>>}
Variable_Semicolon == After_Semicolon \cup {<<ET, K, NO>>, <<ET, N, E>>}
Variable_Collate == After_Collate
Variable_Group == After_Group_DSV \cup After_Group
Variable_Comment == {<<>>}
Variable_Expr == After_Expr_DSV \cup After_Expr
Variable_Function == After_Function \cup After_Function_DSV
Variable_Keyword == After_Keyword \cup After_Keyword_DSV \cup {<<L, D, OR>>}
Variable_Op == After_Op \cup After_Op_DSV \cup After_Op_DNV \cup
    {<<S, A \cup T, T>>, <<S, B \cup T, D>>, <<S, CZ \cup U>>,
     <<S, K, B \cup D \cup R>>, <<S, L, U>>, <<S, M, FL>>, <<S, U, O \cup Z>>,
     <<S>>}
Variable_Tsql == After_Tsql
Variable_Union == After_Union \cup {<<>>}

(* Sections for one first type: their rows begin with the second.           *)
And_ ==
    {<<DNS, O, SV, FL \cup U>>, <<DNS, O, V, O \cup S>>,
     <<DNSV, O, F \cup S, L>>, <<DNSV, O, L \cup S, DV \cup F>>,
     <<DNSV, O, L, NS>>, <<DNSV, U, E, DFKLNSV>>, <<F, L, DNSV, OR>>,
     <<F, L, F, L>>, <<F, L, R, OU>>, <<L, DNS, O, V>>, <<L, DNSV, O, FLS>>,
     <<L, DNSV, R, OU>>, <<L, F, L, DFNRSV>>, <<L, S, O, DN>>, <<S, O, D, NSV>>,
     <<S, O, DN, FL \cup U>>, <<S, O, N, D>>, <<V, O, S, U>>}
Right_ ==
    {<<U, E, DNSV, K \cup O>>, <<U, E, FK, L>>, <<U, E, K \cup L, DFNSV>>,
     <<W, L, E, KN>>}
Semicolon_ == {<<T, K, N, C>>, <<T, L, E, FK>>}
Keyword_1_ ==
    {<<D, A \cup O, V, O>>, <<D, A, S, O>>, <<D, K, DSV, OU>>, <<D, K, N, U>>,
     <<D, MO \cup A \cup K, F, L>>, <<D, MO \cup A \cup K, L, SV \cup FN>>,
     <<D, MO \cup K, L, D>>, <<D, O, S, DV>>,
     <<D, O, SV, {"A", "F", "K", "(", ","}>>, <<D, O, V, S>>,
     <<F, L, DNSV, OR>>, <<F, L, F, L>>, <<F, L, R, MO \cup A \cup K>>,
     <<L, DNS, O, V>>, <<L, DNSV, O, FLS>>, <<L, DNSV, R, MO \cup A \cup K>>,
     <<L, F, L, DFNRSV>>, <<L, S, O, DN>>}
Keyword_2_ ==
    {<<N, K \cup M, L, D>>, <<NSV, A \cup K \cup M, F, L>>,
     <<NSV, A \cup K \cup M, L, SV \cup FN>>, <<NSV, A, SV, O>>,
     <<NSV, K, DSV, OU>>, <<NSV, K, N, U>>, <<S, O, D, NSV>>,
     <<S, O, DNSV, {"A", "F", "K", "(", ","}>>, <<S, O, N, D>>,
     <<S, O, V, O \cup S>>, <<SV, MO \cup K, L, DFNSV>>, <<SV, O, F, L>>,
     <<SV, O, S, {"A", "1", "F", "K", "(", ",", "V"}>>}
Tsql_ ==
    {<<DNS, O, SV, F>>, <<DNS, O, V, O>>, <<DNSV, F \cup O, L, DFNSV>>,
     <<DNSV, O, F, L>>, <<F, L, N \cup R, O>>, <<F, L, N, R>>, <<F, L, R, F>>,
     <<FN, L, DSV, OR>>, <<FN, L, F, L>>, <<L, D, N, R>>, <<L, D, V, O>>,
     <<L, DNSV, F, L>>, <<L, DNSV, R, F \cup O>>, <<L, DNV, SV, R>>,
     <<L, FN, L, DFSV>>, <<L, N, D \cup S, OR>>, <<L, NS, N \cup V, OR>>,
     <<L, S, D, R>>, <<L, V, S, O>>, <<LN, DNS, O, V>>, <<LN, DNSV, O, FLS>>,
     <<LN, F, L, N \cup R>>, <<LN, S, O, DN>>, <<N, DNSV, Z, C>>,
     <<N, DNSV, Z>>, <<S, O, DN, F>>, <<V, O, S, F>>}
Union_ ==
    {<<E, DNS, O, SV>>, <<E, DNSV, CZ>>, <<E, DNSV, K, DNSV>>,
     <<E, DNSV, MO \cup K, FL>>, <<E, DNSV, Z, C>>, <<E, DSV>>,
     <<E, FK, L, DFNSV>>, <<E, FN, L, R>>, <<E, K, DNSV, CKZ \cup M>>,
     <<E, K, DNSV>>, <<E, K, DSV, O>>, <<E, K, FN, L>>,
     <<E, L, DNSV, OR \cup M>>, <<E, S, O, DN>>, <<E, V, O, S>>,
     <<EF, L, F, L>>, <<F, L, DNSV, O>>, <<L, E, DNSV, OR>>, <<L, E, F, L>>,
     <<L, E, K \cup L, DFNSV>>, <<L, E, K, L \cup O>>, <<L, E, LN \cup O, K>>}

-----------------------------------------------------------------------------
ByPair ==
    {<<"1", "&", Number_And>>, <<"1", "(", Number_Left>>,
     <<"1", ")", Number_Right>>, <<"1", ",", Number_Comma>>,
     <<"1", ";", Number_Semicolon>>, <<"1", "A", Number_Collate>>,
     <<"1", "B", Number_Group>>, <<"1", "C", Number_Comment>>,
     <<"1", "E", Number_Expr>>, <<"1", "F", Number_Function>>,
     <<"1", "K", Number_Keyword>>, <<"1", "N", Number_Name>>,
     <<"1", "O", Number_Op>>, <<"1", "S", Number_String>>,
     <<"1", "T", Number_Tsql>>, <<"1", "U", Number_Union>>,
     <<"1", "V", Number_Variable>>, <<"E", "(", Expr_Left>>,
     <<"E", "1", Expr_Number>>, <<"E", "E", Expr_Expr>>,
     <<"E", "F", Expr_Function>>, <<"E", "K", Expr_Keyword>>,
     <<"E", "N", Expr_Name>>, <<"E", "O", Expr_Op>>, <<"E", "S", Expr_String>>,
     <<"E", "V", Expr_Variable>>, <<"F", "(", Function_Left>>,
     <<"N", "&", Name_And>>, <<"N", ")", Name_Right>>,
     <<"N", ",", Name_Comma>>, <<"N", "1", Name_Number>>,
     <<"N", ";", Name_Semicolon>>, <<"N", "A", Name_Collate>>,
     <<"N", "B", Name_Group>>, <<"N", "C", Name_Comment>>,
     <<"N", "E", Name_Expr>>, <<"N", "F", Name_Function>>,
     <<"N", "K", Name_Keyword>>, <<"N", "O", Name_Op>>,
     <<"N", "S", Name_String>>, <<"N", "T", Name_Tsql>>,
     <<"N", "U", Name_Union>>, <<"S", "&", String_And>>,
     <<"S", "(", String_Left>>, <<"S", ")", String_Right>>,
     <<"S", ",", String_Comma>>, <<"S", "1", String_Number>>,
     <<"S", ";", String_Semicolon>>, <<"S", "A", String_Collate>>,
     <<"S", "B", String_Group>>, <<"S", "C", String_Comment>>,
     <<"S", "E", String_Expr>>, <<"S", "F", String_Function>>,
     <<"S", "K", String_Keyword>>, <<"S", "O", String_Op>>,
     <<"S", "T", String_Tsql>>, <<"S", "U", String_Union>>,
     <<"S", "V", String_Variable>>, <<"V", "&", Variable_And>>,
     <<"V", "(", Variable_Left>>, <<"V", ")", Variable_Right>>,
     <<"V", ",", Variable_Comma>>, <<"V", ";", Variable_Semicolon>>,
     <<"V", "A", Variable_Collate>>, <<"V", "B", Variable_Group>>,
     <<"V", "C", Variable_Comment>>, <<"V", "E", Variable_Expr>>,
     <<"V", "F", Variable_Function>>, <<"V", "K", Variable_Keyword>>,
     <<"V", "O", Variable_Op>>, <<"V", "T", Variable_Tsql>>,
     <<"V", "U", Variable_Union>>}

ByFirst ==
    {<<"&", And_>>, <<")", Right_>>, <<";", Semicolon_>>, <<"K", Keyword_1_>>,
     <<"K", Keyword_2_>>, <<"T", Tsql_>>, <<"U", Union_>>}

Fits(types, row) ==
    Len(types) = Len(row) /\ \A i \in DOMAIN row : types[i] \in row[i]

After(types, n) == SubSeq(types, n + 1, Len(types))

\* The word 0 \o types is in the table.
IsFingerprint(types) ==
    \/ types = <<"X">>
    \/ \E s \in ByFirst :
           /\ types # <<>> /\ types[1] = s[1]
           /\ \E row \in s[2] : Fits(After(types, 1), row)
    \/ \E s \in ByPair :
           /\ Len(types) > 1 /\ types[1] = s[1] /\ types[2] = s[2]
           /\ \E row \in s[3] : Fits(After(types, 2), row)
=============================================================================
