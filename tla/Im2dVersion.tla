----------------------------- MODULE Im2dVersion -----------------------------
(***************************************************************************)
(* The version check of im2d_api/src/im2d_impl.cpp and the two tables of   *)
(* im2d_hardware.h it reads: which drivers and which header files a        *)
(* release of librga works with.  A version is <<major, minor, revision>>; *)
(* the messages of the callbacks in rga_version_check_ops_t are left out.  *)
(***************************************************************************)
EXTENDS Integers, Sequences

rga_version_t == Nat \X Nat \X Nat

rga_version_compare(v, w) ==
  CASE v[1] > w[1] -> 1
    [] v[1] = w[1] /\ v[2] > w[2] -> 1
    [] v[1] = w[1] /\ v[2] = w[2] /\ v[3] > w[3] -> 1
    [] v = w -> 0
    [] OTHER -> -1

Row(current, minimum) == [current |-> current, minimum |-> minimum]
user_driver_bind_table ==
  << Row(<<0, 0, 0>>, <<0, 0, 0>>), Row(<<1, 0, 3>>, <<0, 0, 0>>),
     Row(<<1, 6, 0>>, <<1, 1, 5>>), Row(<<1, 7, 2>>, <<1, 2, 0>>),
     Row(<<1, 7, 3>>, <<1, 2, 4>>) >>
user_header_bind_table ==
  << Row(<<0, 0, 0>>, <<0, 0, 0>>), Row(<<1, 0, 3>>, <<1, 0, 3>>),
     Row(<<1, 4, 0>>, <<1, 4, 0>>) >>

\* The loops run from the last row down and stop at the first match; 0 stands
\* for their -1, the tables are counted from 1.
LastMatch(table, Matches(_)) ==
  IF \E i \in DOMAIN table : Matches(i)
  THEN CHOOSE i \in DOMAIN table : Matches(i) /\ \A j \in DOMAIN table : Matches(j) => j <= i
  ELSE 0
get_current_index(version, table) ==
  LET Matches(i) == /\ rga_version_compare(version, table[i].current) >= 0
                    /\ i = Len(table) \/ rga_version_compare(table[i + 1].current, version) > 0
  IN  LastMatch(table, Matches)
get_minimum_index(version, table) ==
  LET Matches(i) == /\ rga_version_compare(version, table[i].minimum) >= 0
                    /\ i = Len(table) \/ rga_version_compare(table[i + 1].minimum, version) > 0
  IN  LastMatch(table, Matches)

\* Defect: the upper end of the range counts as within.
check_minimum_range_Closed(version, table, index) ==
  IF rga_version_compare(version, table[index].minimum) < 0 THEN -1
  ELSE IF index = Len(table) \/ rga_version_compare(version, table[index + 1].minimum) <= 0
       THEN 0 ELSE 1
\* -1 below, 0 within, 1 above the range the row of the library gives.
check_minimum_range(version, table, index) ==
  IF rga_version_compare(version, table[index].minimum) < 0 THEN -1
  ELSE IF index = Len(table) \/ rga_version_compare(version, table[index + 1].minimum) < 0
       THEN 0 ELSE 1

\* What every get_current_index_failed callback returns.
IM_STATUS_ERROR_VERSION == -5
\* The result, and the row the message of the callback names.
rga_version_check(current, minimum, table) ==
  LET index == get_current_index(current, table)
  IN  IF index = 0 THEN [ret |-> IM_STATUS_ERROR_VERSION, row |-> 0]
      ELSE LET range == check_minimum_range(minimum, table, index)
           IN  [ret |-> range,
                row |-> CASE range = 1  -> get_minimum_index(minimum, table)
                          [] range = -1 -> index
                          [] OTHER      -> 0]

\* A driver that is too old may still work; one that is too new is refused.
rga_check_driver(librga, driver) ==
  rga_version_check(librga, driver, user_driver_bind_table).ret \in {0, -1}
\* A header file has to be of the range.
rga_check_header(librga, header) ==
  rga_version_check(librga, header, user_header_bind_table).ret = 0
\* RGA_GET_API_VERSION takes the three numbers out of the header's word, which
\* also holds the build number, that no check looks at.
imcheckHeader(librga, header_version) ==
  rga_check_header(librga, << (header_version \div 2^24) % 2^8, (header_version \div 2^16) % 2^8,
                              (header_version \div 2^8) % 2^8 >>)

RGA_DRIVER_FEATURE_USER_CLOSE_FENCE(driver) == rga_version_compare(driver, <<1, 3, 0>>) >= 0
=============================================================================
