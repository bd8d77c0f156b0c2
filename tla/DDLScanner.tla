----------------------------- MODULE DDLScanner -----------------------------
(***************************************************************************)
(* The scanner of the DDL parser (dbcon/ddlpackage/ddl-scan-win.cpp, which *)
(* flex has made of ddl.l): scanner_init puts a statement into a buffer,   *)
(* every call of ddllex (yylex) returns its next token, scanner_finish     *)
(* frees what the two have allocated.  The tables of the automaton are     *)
(* those of the source; a character is its code, 0..255, a pointer into    *)
(* the buffer an offset, a pointer to a yy_buffer_state a handle (0 is the *)
(* null pointer).  The operators take the statics of the scanner as a      *)
(* record y and give them back; PureFunctions evaluates whole scans.       *)
(***************************************************************************)
EXTENDS Integers, Sequences, TLC

\* yy_accept[386]: the rule a state accepts, 0 for none (85: the end of the buffer).
yy_accept ==
    <<0, 0, 0, 0, 0, 0, 0, 0, 0, 0, 0, 85, 84, 80, 79, 82, 13, 82, 82, 82, 16, 81, 83, 81,
      81, 81, 81, 81, 81, 81, 81, 81, 81, 81, 81, 81, 81, 81, 81, 81, 10, 12, 84, 11, 84, 14, 15, 80,
      16, 80, 17, 17, 16, 0, 81, 81, 81, 81, 81, 81, 81, 81, 81, 81, 81, 81, 81, 81, 81, 81, 81, 81,
      81, 81, 74, 81, 81, 81, 81, 81, 81, 48, 81, 52, 81, 81, 81, 81, 81, 81, 81, 81, 65, 81, 81, 81,
      81, 81, 0, 11, 0, 14, 80, 17, 0, 18, 81, 2, 81, 81, 81, 81, 81, 81, 81, 81, 81, 81, 81, 81,
      29, 81, 81, 81, 81, 81, 81, 81, 81, 81, 81, 81, 81, 41, 43, 81, 81, 81, 81, 49, 81, 81, 81, 81,
      81, 81, 81, 81, 81, 81, 61, 81, 81, 81, 81, 81, 81, 81, 81, 81, 81, 81, 81, 81, 81, 81, 6, 81,
      81, 81, 81, 81, 81, 26, 81, 81, 81, 81, 81, 34, 81, 81, 81, 81, 37, 81, 81, 81, 81, 81, 81, 81,
      81, 50, 81, 81, 81, 81, 72, 81, 81, 81, 81, 81, 81, 81, 81, 81, 81, 81, 68, 81, 81, 81, 3, 81,
      81, 81, 81, 81, 81, 9, 81, 81, 81, 81, 81, 81, 81, 81, 81, 81, 81, 81, 81, 70, 81, 81, 39, 81,
      81, 44, 81, 81, 81, 81, 81, 81, 81, 81, 81, 81, 81, 81, 81, 63, 81, 81, 81, 81, 81, 81, 1, 81,
      8, 81, 76, 81, 81, 20, 81, 81, 24, 81, 81, 81, 81, 81, 33, 71, 35, 75, 81, 81, 81, 81, 81, 81,
      47, 81, 81, 81, 81, 81, 57, 81, 81, 81, 81, 81, 81, 66, 67, 81, 81, 81, 5, 81, 73, 21, 19, 81,
      81, 81, 28, 30, 81, 81, 36, 81, 81, 42, 81, 81, 51, 53, 81, 55, 81, 81, 81, 81, 81, 64, 81, 81,
      69, 81, 81, 81, 81, 27, 81, 32, 81, 81, 45, 46, 81, 81, 58, 81, 62, 81, 77, 81, 81, 7, 81, 81,
      81, 38, 40, 54, 81, 81, 81, 78, 81, 22, 81, 31, 56, 81, 81, 81, 23, 81, 81, 60, 81, 25, 59, 81,
      4, 0 >>

\* yy_ec[256]: the class of a character.
yy_ec ==
    <<0, 1, 1, 1, 1, 1, 1, 1, 1, 2, 3, 1, 2, 4, 1, 1, 1, 1, 1, 1, 1, 1, 1, 1,
      1, 1, 1, 1, 1, 1, 1, 1, 2, 1, 1, 1, 5, 6, 1, 7, 8, 9, 6, 10, 6, 11, 12, 6,
      13, 13, 13, 13, 13, 13, 13, 13, 13, 13, 6, 6, 6, 6, 6, 1, 1, 16, 17, 18, 19, 20, 21, 22,
      23, 24, 25, 26, 27, 28, 29, 30, 31, 32, 33, 34, 35, 36, 37, 38, 39, 40, 25, 6, 1, 6, 6, 14,
      15, 16, 17, 18, 19, 20, 21, 22, 23, 24, 25, 26, 27, 28, 29, 30, 31, 32, 33, 34, 35, 36, 37, 38,
      39, 40, 25, 1, 1, 1, 1, 1, 25, 25, 25, 25, 25, 25, 25, 25, 25, 25, 25, 25, 25, 25, 25, 25,
      25, 25, 25, 25, 25, 25, 25, 25, 25, 25, 25, 25, 25, 25, 25, 25, 25, 25, 25, 25, 25, 25, 25, 25,
      25, 25, 25, 25, 25, 25, 25, 25, 25, 25, 25, 25, 25, 25, 25, 25, 25, 25, 25, 25, 25, 25, 25, 25,
      25, 25, 25, 25, 25, 25, 25, 25, 25, 25, 25, 25, 25, 25, 25, 25, 25, 25, 25, 25, 25, 25, 25, 25,
      25, 25, 25, 25, 25, 25, 25, 25, 25, 25, 25, 25, 25, 25, 25, 25, 25, 25, 25, 25, 25, 25, 25, 25,
      25, 25, 25, 25, 25, 25, 25, 25, 25, 25, 25, 25, 25, 25, 25, 25 >>

\* yy_meta[41]: the class a template state takes a class for.
yy_meta ==
    <<0, 1, 1, 2, 2, 3, 1, 1, 1, 1, 1, 1, 1, 3, 3, 1, 3, 3, 3, 3, 3, 3, 3, 3,
      3, 3, 3, 3, 3, 3, 3, 3, 3, 3, 3, 3, 3, 3, 3, 3, 3 >>

\* yy_base[393]: where the row of a state begins in yy_nxt and yy_chk.
yy_base ==
    <<0, 0, 0, 33, 35, 418, 417, 418, 417, 416, 415, 421, 428, 43, 46, 428, 428, 407, 40, 406, 42, 0, 428, 38,
      394, 36, 47, 29, 34, 50, 397, 57, 46, 387, 59, 395, 63, 69, 55, 398, 428, 428, 404, 428, 405, 428, 428, 92,
      77, 0, 85, 87, 96, 100, 0, 376, 391, 374, 373, 385, 372, 98, 92, 385, 371, 368, 104, 366, 371, 378, 375, 368,
      364, 369, 0, 367, 82, 354, 88, 364, 373, 356, 101, 0, 357, 106, 116, 99, 373, 354, 370, 357, 0, 349, 360, 364,
      362, 348, 371, 428, 372, 428, 0, 122, 365, 364, 352, 0, 355, 344, 349, 354, 107, 353, 334, 341, 334, 351, 333, 345,
      340, 123, 343, 345, 330, 336, 325, 342, 337, 329, 335, 334, 318, 332, 0, 333, 336, 335, 324, 0, 320, 326, 310, 326,
      315, 315, 321, 324, 304, 304, 0, 310, 301, 308, 294, 304, 300, 315, 297, 129, 299, 295, 313, 297, 309, 302, 122, 297,
      294, 301, 285, 284, 298, 282, 288, 279, 281, 278, 285, 0, 282, 275, 274, 284, 0, 288, 267, 281, 282, 280, 269, 268,
      279, 0, 266, 274, 273, 280, 0, 262, 266, 260, 268, 264, 270, 269, 264, 269, 250, 250, 0, 260, 260, 253, 0, 257,
      245, 260, 258, 259, 256, 0, 246, 245, 240, 252, 242, 246, 253, 241, 234, 246, 245, 244, 229, 0, 240, 237, 0, 244,
      239, 0, 228, 227, 216, 231, 238, 219, 219, 231, 230, 225, 218, 223, 218, 0, 216, 228, 223, 222, 212, 224, 0, 210,
      0, 218, 0, 202, 201, 201, 199, 217, 0, 197, 203, 203, 194, 128, 0, 0, 0, 0, 199, 211, 199, 192, 186, 185,
      0, 204, 194, 196, 179, 189, 0, 199, 187, 186, 200, 178, 177, 0, 0, 195, 177, 191, 0, 188, 0, 0, 0, 183,
      192, 185, 0, 0, 187, 184, 0, 167, 174, 0, 166, 165, 0, 0, 168, 0, 179, 161, 181, 159, 157, 0, 172, 158,
      0, 157, 156, 159, 151, 0, 159, 0, 165, 144, 0, 0, 154, 162, 0, 145, 0, 146, 0, 139, 158, 0, 142, 142,
      155, 0, 0, 0, 139, 121, 134, 0, 125, 118, 131, 0, 0, 129, 108, 104, 0, 82, 79, 0, 75, 0, 0, 53,
      0, 428, 156, 159, 162, 57, 165, 168, 171 >>

\* yy_def[393]: the state to take the transition from when the row has none.
yy_def ==
    <<0, 385, 1, 386, 386, 387, 387, 388, 388, 386, 386, 385, 385, 385, 385, 385, 385, 385, 385, 385, 385, 389, 385, 389,
      389, 389, 389, 389, 389, 389, 389, 389, 389, 389, 389, 389, 389, 389, 389, 389, 385, 385, 390, 385, 391, 385, 385, 385,
      385, 392, 385, 385, 385, 385, 389, 389, 389, 389, 389, 389, 389, 389, 389, 389, 389, 389, 389, 389, 389, 389, 389, 389,
      389, 389, 389, 389, 389, 389, 389, 389, 389, 389, 389, 389, 389, 389, 389, 389, 389, 389, 389, 389, 389, 389, 389, 389,
      389, 389, 390, 385, 391, 385, 392, 385, 385, 385, 389, 389, 389, 389, 389, 389, 389, 389, 389, 389, 389, 389, 389, 389,
      389, 389, 389, 389, 389, 389, 389, 389, 389, 389, 389, 389, 389, 389, 389, 389, 389, 389, 389, 389, 389, 389, 389, 389,
      389, 389, 389, 389, 389, 389, 389, 389, 389, 389, 389, 389, 389, 389, 389, 389, 389, 389, 389, 389, 389, 389, 389, 389,
      389, 389, 389, 389, 389, 389, 389, 389, 389, 389, 389, 389, 389, 389, 389, 389, 389, 389, 389, 389, 389, 389, 389, 389,
      389, 389, 389, 389, 389, 389, 389, 389, 389, 389, 389, 389, 389, 389, 389, 389, 389, 389, 389, 389, 389, 389, 389, 389,
      389, 389, 389, 389, 389, 389, 389, 389, 389, 389, 389, 389, 389, 389, 389, 389, 389, 389, 389, 389, 389, 389, 389, 389,
      389, 389, 389, 389, 389, 389, 389, 389, 389, 389, 389, 389, 389, 389, 389, 389, 389, 389, 389, 389, 389, 389, 389, 389,
      389, 389, 389, 389, 389, 389, 389, 389, 389, 389, 389, 389, 389, 389, 389, 389, 389, 389, 389, 389, 389, 389, 389, 389,
      389, 389, 389, 389, 389, 389, 389, 389, 389, 389, 389, 389, 389, 389, 389, 389, 389, 389, 389, 389, 389, 389, 389, 389,
      389, 389, 389, 389, 389, 389, 389, 389, 389, 389, 389, 389, 389, 389, 389, 389, 389, 389, 389, 389, 389, 389, 389, 389,
      389, 389, 389, 389, 389, 389, 389, 389, 389, 389, 389, 389, 389, 389, 389, 389, 389, 389, 389, 389, 389, 389, 389, 389,
      389, 389, 389, 389, 389, 389, 389, 389, 389, 389, 389, 389, 389, 389, 389, 389, 389, 389, 389, 389, 389, 389, 389, 389,
      389, 0, 385, 385, 385, 385, 385, 385, 385 >>

\* yy_nxt[469]: the next state.
yy_nxt ==
    <<0, 12, 13, 14, 13, 12, 15, 16, 15, 15, 17, 18, 19, 20, 21, 22, 23, 24, 25, 26, 27, 28, 21, 21,
      29, 21, 30, 21, 31, 32, 33, 34, 21, 35, 36, 37, 38, 39, 21, 21, 21, 40, 41, 40, 41, 47, 47, 47,
      47, 47, 47, 49, 60, 48, 51, 52, 55, 56, 69, 61, 54, 71, 53, 65, 72, 57, 62, 66, 70, 63, 73, 74,
      64, 78, 58, 84, 81, 67, 75, 76, 68, 79, 82, 87, 94, 90, 95, 80, 384, 96, 48, 88, 85, 91, 47, 47,
      47, 53, 50, 92, 103, 131, 93, 89, 383, 53, 132, 53, 51, 52, 104, 104, 382, 105, 112, 381, 53, 133, 113, 114,
      115, 116, 120, 135, 380, 121, 143, 136, 140, 141, 144, 122, 145, 149, 150, 103, 165, 146, 219, 175, 166, 379, 53, 176,
      316, 147, 211, 212, 317, 378, 148, 377, 376, 375, 374, 373, 220, 12, 12, 12, 42, 42, 42, 44, 44, 44, 98, 98,
      98, 100, 100, 100, 102, 372, 102, 371, 370, 369, 368, 367, 366, 365, 364, 363, 362, 361, 360, 359, 358, 357, 356, 355,
      354, 353, 352, 351, 350, 349, 348, 347, 346, 345, 344, 343, 342, 341, 340, 339, 338, 337, 336, 335, 334, 333, 332, 331,
      330, 329, 328, 327, 326, 325, 324, 323, 322, 321, 320, 319, 318, 315, 314, 313, 312, 311, 310, 309, 308, 307, 306, 305,
      304, 303, 302, 301, 300, 299, 298, 297, 296, 295, 294, 293, 292, 291, 290, 289, 288, 287, 286, 285, 284, 283, 282, 281,
      280, 279, 278, 277, 276, 275, 274, 273, 272, 271, 270, 269, 268, 267, 266, 265, 264, 263, 262, 261, 260, 259, 258, 257,
      256, 255, 254, 253, 252, 251, 250, 249, 248, 247, 246, 245, 244, 243, 242, 241, 240, 239, 238, 237, 236, 235, 234, 233,
      232, 231, 230, 229, 228, 227, 226, 225, 224, 223, 222, 221, 218, 217, 216, 215, 214, 213, 210, 209, 208, 207, 206, 205,
      204, 203, 202, 201, 200, 199, 198, 197, 196, 195, 194, 193, 192, 191, 190, 189, 188, 187, 186, 185, 184, 183, 182, 181,
      180, 179, 178, 177, 174, 173, 172, 171, 170, 169, 168, 167, 164, 163, 162, 161, 160, 105, 105, 101, 99, 159, 158, 157,
      156, 155, 154, 153, 152, 151, 142, 139, 138, 137, 134, 130, 129, 128, 127, 126, 125, 124, 123, 119, 118, 117, 111, 110,
      109, 108, 107, 106, 101, 99, 97, 86, 83, 77, 59, 50, 48, 385, 46, 46, 45, 45, 43, 43, 11, 385, 385, 385,
      385, 385, 385, 385, 385, 385, 385, 385, 385, 385, 385, 385, 385, 385, 385, 385, 385, 385, 385, 385, 385, 385, 385, 385,
      385, 385, 385, 385, 385, 385, 385, 385, 385, 385, 385, 385, 385 >>

\* yy_chk[469]: the state an entry of yy_nxt belongs to.
yy_chk ==
    <<0, 1, 1, 1, 1, 1, 1, 1, 1, 1, 1, 1, 1, 1, 1, 1, 1, 1, 1, 1, 1, 1, 1, 1,
      1, 1, 1, 1, 1, 1, 1, 1, 1, 1, 1, 1, 1, 1, 1, 1, 1, 3, 3, 4, 4, 13, 13, 13,
      14, 14, 14, 18, 25, 18, 20, 20, 23, 23, 27, 25, 389, 28, 20, 26, 28, 23, 25, 26, 27, 25, 28, 29,
      25, 31, 23, 34, 32, 26, 29, 29, 26, 31, 32, 36, 38, 37, 38, 31, 383, 38, 48, 36, 34, 37, 47, 47,
      47, 48, 50, 37, 51, 76, 37, 36, 380, 50, 76, 51, 52, 52, 53, 53, 378, 53, 61, 377, 52, 76, 61, 62,
      62, 62, 66, 78, 375, 66, 85, 78, 82, 82, 85, 66, 86, 87, 87, 103, 112, 86, 166, 121, 112, 374, 103, 121,
      277, 86, 159, 159, 277, 373, 86, 370, 369, 368, 366, 365, 166, 386, 386, 386, 387, 387, 387, 388, 388, 388, 390, 390,
      390, 391, 391, 391, 392, 364, 392, 360, 359, 358, 356, 355, 353, 351, 349, 348, 345, 344, 342, 340, 339, 338, 337, 335,
      334, 332, 331, 330, 329, 328, 326, 323, 322, 320, 319, 317, 316, 313, 312, 311, 307, 305, 304, 303, 300, 299, 298, 297,
      296, 295, 293, 292, 291, 290, 289, 287, 286, 285, 284, 283, 282, 276, 275, 274, 273, 271, 270, 269, 268, 267, 265, 263,
      261, 260, 259, 258, 257, 256, 254, 253, 252, 251, 250, 249, 248, 247, 246, 245, 244, 243, 242, 240, 239, 237, 236, 234,
      233, 232, 231, 230, 229, 228, 227, 226, 225, 224, 223, 222, 220, 219, 218, 217, 216, 215, 213, 212, 211, 209, 208, 207,
      206, 205, 204, 203, 202, 201, 200, 199, 197, 196, 195, 194, 192, 191, 190, 189, 188, 187, 186, 185, 183, 182, 181, 180,
      178, 177, 176, 175, 174, 173, 172, 171, 170, 169, 168, 167, 165, 164, 163, 162, 161, 160, 158, 157, 156, 155, 154, 153,
      152, 151, 149, 148, 147, 146, 145, 144, 143, 142, 141, 140, 138, 137, 136, 135, 133, 132, 131, 130, 129, 128, 127, 126,
      125, 124, 123, 122, 120, 119, 118, 117, 116, 115, 114, 113, 111, 110, 109, 108, 106, 105, 104, 100, 98, 97, 96, 95,
      94, 93, 91, 90, 89, 88, 84, 81, 80, 79, 77, 75, 73, 72, 71, 70, 69, 68, 67, 65, 64, 63, 60, 59,
      58, 57, 56, 55, 44, 42, 39, 35, 33, 30, 24, 19, 17, 11, 10, 9, 8, 7, 6, 5, 385, 385, 385, 385,
      385, 385, 385, 385, 385, 385, 385, 385, 385, 385, 385, 385, 385, 385, 385, 385, 385, 385, 385, 385, 385, 385, 385, 385,
      385, 385, 385, 385, 385, 385, 385, 385, 385, 385, 385, 385, 385 >>
-----------------------------------------------------------------------------
\* The tables, like the buffer, are indexed from 0.
At(table, i) == table[i + 1]

\* The start conditions of ddl.l.
INITIAL  == 0
check1   == 1
check2   == 2
inquote  == 3
endquote == 4

YY_END_OF_BUFFER  == 85
YY_STATE_EOF(state) == YY_END_OF_BUFFER + state + 1
YY_START(y)       == (y.yy_start - 1) \div 2
YY_BUFFER_NEW     == 0
YY_BUFFER_NORMAL  == 1
YY_NULL           == [token |-> "YY_NULL"]
YY_FATAL_ERROR    == [token |-> "yy_fatal_error"]

EOB_ACT_END_OF_FILE == "EOB_ACT_END_OF_FILE"
EOB_ACT_LAST_MATCH  == "EOB_ACT_LAST_MATCH"

\* The statics of the scanner when the program starts.
Statics ==
    [yy_init |-> 1, yy_start |-> 0, yy_current_buffer |-> 0, buffers |-> <<>>,
     handles |-> 0, yy_n_chars |-> 0, yy_c_buf_p |-> 0, yy_hold_char |-> 0,
     yytext_ptr |-> 0, yyleng |-> 0,
     yy_last_accepting_state |-> 0, yy_last_accepting_cpos |-> 0,
     lineno |-> 1, scanbufhandle |-> 0, scanbufs |-> 0, valbuf |-> <<>>,
     strdups |-> 0, ddllval |-> <<>>, yyout |-> <<>>]

\* *yy_current_buffer, the character at an offset of its yy_ch_buf, and the
\* assignment to one.
Cur(y)           == y.buffers[y.yy_current_buffer]
Char(y, p)       == At(Cur(y).yy_ch_buf, p)
Poke(y, p, c)    == [y EXCEPT !.buffers[y.yy_current_buffer].yy_ch_buf[p + 1] = c]
yytext(y)        == SubSeq(Cur(y).yy_ch_buf, y.yytext_ptr + 1, y.yytext_ptr + y.yyleng)

-----------------------------------------------------------------------------
(* Buffers.                                                                *)

yy_load_buffer_state(y) ==
    [y EXCEPT !.yy_n_chars = Cur(y).yy_n_chars,
              !.yytext_ptr = Cur(y).yy_buf_pos,
              !.yy_c_buf_p = Cur(y).yy_buf_pos,
              !.yy_hold_char = Char(y, Cur(y).yy_buf_pos)]

\* The buffer that is left gets its character back and keeps the place.
yy_switch_to_buffer(y, new_buffer) ==
    IF y.yy_current_buffer = new_buffer THEN y
    ELSE LET left == IF y.yy_current_buffer = 0 THEN y
                     ELSE [Poke(y, y.yy_c_buf_p, y.yy_hold_char) EXCEPT
                              !.buffers[y.yy_current_buffer].yy_buf_pos = y.yy_c_buf_p,
                              !.buffers[y.yy_current_buffer].yy_n_chars = y.yy_n_chars]
         IN  yy_load_buffer_state([left EXCEPT !.yy_current_buffer = new_buffer])

\* The characters of a buffer that is not the scanner's own are not freed.
yy_delete_buffer(y, b) ==
    IF b = 0 THEN y
    ELSE [y EXCEPT !.yy_current_buffer = IF b = @ THEN 0 ELSE @,
                   !.buffers = [h \in DOMAIN @ \ {b} |-> @[h]]]

\* The buffer is scanned in place; b is the handle returned, 0 for a base
\* that does not end in two YY_END_OF_BUFFER_CHARs.
yy_scan_buffer(y, base, size) ==
    IF size < 2 \/ At(base, size - 2) # 0 \/ At(base, size - 1) # 0
    THEN [y |-> y, b |-> 0]
    ELSE LET b == y.handles + 1
             state == [yy_buf_size |-> size - 2, yy_buf_pos |-> 0, yy_ch_buf |-> base,
                       yy_is_our_buffer |-> 0, yy_n_chars |-> size - 2,
                       yy_fill_buffer |-> 0, yy_buffer_status |-> YY_BUFFER_NEW]
         IN  [y |-> yy_switch_to_buffer(
                        [y EXCEPT !.handles = b, !.buffers = (b :> state) @@ @], b),
              b |-> b]

\* Faulty variant: the start condition of the statement before is kept.
scanner_initKeepsStart(y, str) ==
    LET left    == IF y.yy_current_buffer # 0
                   THEN yy_delete_buffer(y, y.yy_current_buffer) ELSE y
        scanned == yy_scan_buffer([left EXCEPT !.scanbufs = @ + 1],
                                  str \o <<0, 0>>, Len(str) + 2)
    IN  [scanned.y EXCEPT !.scanbufhandle = scanned.b, !.valbuf = <<>>]

\* "Called before any actual parsing is done": a buffer that "might be left
\* over" is deleted, though not the scanbuf and the copies that went with it.
scanner_init(y, str) ==
    LET left    == IF y.yy_current_buffer # 0
                   THEN yy_delete_buffer(y, y.yy_current_buffer) ELSE y
        scanned == yy_scan_buffer([left EXCEPT !.scanbufs = @ + 1],
                                  str \o <<0, 0>>, Len(str) + 2)
    IN  [scanned.y EXCEPT !.scanbufhandle = scanned.b,
                          !.yy_start = 1 + 2 * INITIAL, !.valbuf = <<>>]

\* "Called after parsing is done to clean up after scanner_init()".
scanner_finish(y) ==
    [yy_delete_buffer(y, y.scanbufhandle) EXCEPT
        !.scanbufs = @ - 1, !.strdups = @ - Len(y.valbuf), !.valbuf = <<>>]

-----------------------------------------------------------------------------
(* The automaton.                                                          *)

\* The transition of state s on the class yy_c: a state that has none of its
\* own takes that of its default state, a template state for the meta class.
RECURSIVE Transition(_, _)
Transition(s, yy_c) ==
    IF At(yy_chk, At(yy_base, s) + yy_c) = s
    THEN At(yy_nxt, At(yy_base, s) + yy_c)
    ELSE Transition(At(yy_def, s),
                    IF At(yy_def, s) >= 386 THEN At(yy_meta, yy_c) ELSE yy_c)

\* The last state that accepts a rule, and where it was reached.
Accepting(y, s, yy_cp) ==
    IF At(yy_accept, s) = 0 THEN y
    ELSE [y EXCEPT !.yy_last_accepting_state = s, !.yy_last_accepting_cpos = yy_cp]

RECURSIVE PreviousState(_, _, _)
PreviousState(y, s, yy_cp) ==
    IF yy_cp >= y.yy_c_buf_p THEN [y |-> y, state |-> s]
    ELSE PreviousState(Accepting(y, s, yy_cp),
                       Transition(s, IF Char(y, yy_cp) # 0
                                     THEN At(yy_ec, Char(y, yy_cp)) ELSE 1),
                       yy_cp + 1)

\* The state the text from yytext_ptr up to yy_c_buf_p leads to.
yy_get_previous_state(y) == PreviousState(y, y.yy_start, y.yytext_ptr)

\* The state behind a NUL of the text, 0 when there is none.
yy_try_NUL_trans(y, s) ==
    [y |-> Accepting(y, s, y.yy_c_buf_p),
     state |-> IF Transition(s, 1) = 385 THEN 0 ELSE Transition(s, 1)]

\* Faulty variant: the text matched before the end of the buffer is dropped.
yy_get_next_bufferAtOnce(y) ==
    IF y.yy_c_buf_p > y.yy_n_chars + 1 THEN "yy_fatal_error" ELSE EOB_ACT_END_OF_FILE

\* The buffers of yy_scan_buffer are not filled: their end is the end of the
\* input, at once or after the text matched so far.
yy_get_next_buffer(y) ==
    CASE y.yy_c_buf_p > y.yy_n_chars + 1 -> "yy_fatal_error"
      [] Cur(y).yy_fill_buffer = 0 /\ y.yy_c_buf_p - y.yytext_ptr = 1 ->
             EOB_ACT_END_OF_FILE
      [] OTHER -> EOB_ACT_LAST_MATCH

\* yytext is set up: it ends in a NUL, and the character that was there is
\* held.
YY_DO_BEFORE_ACTION(y, yy_bp, yy_cp) ==
    [Poke(y, yy_cp, 0) EXCEPT !.yytext_ptr = yy_bp, !.yyleng = yy_cp - yy_bp,
                              !.yy_hold_char = Char(y, yy_cp), !.yy_c_buf_p = yy_cp]

-----------------------------------------------------------------------------
(* The rules: what the action of each one returns, in the order of the     *)
(* cases of the switch.                                                    *)

Nothing == "break"          \* the action returns nothing: the scan goes on
yytext0 == "yytext[0]"      \* the action returns the character matched

\* Faulty variant: the rules of "add" and of "alter" return each other's token.
RulesAlterBeforeAdd ==
    <<"ACTION", "ALTER", "ADD", "AUTO_INCREMENT", "CASCADE", "IDB_CHAR", "IDB_CHAR",
      "BIGINT">>

RulesActionToBigint ==
    <<"ACTION", "ADD", "ALTER", "AUTO_INCREMENT", "CASCADE", "IDB_CHAR", "IDB_CHAR",
      "BIGINT">>
RulesCheckToFconst ==
    <<"CHECK", "(", "CP_SEARCH_CONDITION_TEXT", ")", yytext0, "SCONST", yytext0,
      "ICONST", "FCONST", "FCONST">>
RulesCommentToDrop ==
    <<"COMMENT", "COLUMN", "COLUMNS", "CONSTRAINT", "CONSTRAINTS", "CREATE",
      "CURRENT_USER", "DATE", "DATETIME", "DECIMAL", "DECIMAL", "DEFAULT",
      "DEFERRABLE", "DEFERRED", "IDB_DELETE", "DROP">>
RulesEngineToRestrict ==
    <<"ENGINE", "FOREIGN", "FULL", "IMMEDIATE", "INDEX", "INITIALLY", "IDB_INT",
      "INTEGER", "KEY", "MATCH", "MAX_ROWS", "MIN_ROWS", "MODIFY", "NO", "NOT",
      "NULL_TOK", "NUMERIC", "ON", "PARTIAL", "PRECISION", "PRIMARY", "REFERENCES",
      "RENAME", "RESTRICT">>
RulesSessionUserToVarbinary ==
    <<"SESSION_USER", "SYSTEM_USER", "SET", "SMALLINT", "TABLE", "TINYINT", "TO",
      "UNIQUE", "UPDATE", "USER", "VARCHAR", "IDB_FLOAT", "DOUBLE", "REAL", "CHARSET",
      "IF", "EXISTS", "CHANGE", "TRUNCATE", "VARBINARY">>
RulesNewlineToEcho ==
    <<Nothing, Nothing, "IDENT", yytext0, Nothing, Nothing>>

Returned ==
    RulesActionToBigint \o RulesCheckToFconst \o RulesCommentToDrop
        \o RulesEngineToRestrict \o RulesSessionUserToVarbinary \o RulesNewlineToEcho

\* BEGIN(...): the rules that change the start condition.
Begins ==
    (9 :> check1) @@ (10 :> check2) @@ (11 :> check1) @@ (12 :> INITIAL)
        @@ (13 :> inquote) @@ (14 :> endquote) @@ (15 :> INITIAL)

\* The rules of a pattern with one character of trailing context, which the
\* action gives back; those that hand the parser a scanner_copy of the text.
TrailingContext == {11, 14}
Copied          == {11, 14, 16, 17, 18, 81}
DateRule        == 26
NewlineRule     == 79
EchoRule        == 84
date            == <<100, 97, 116, 101>>

\* The value yylex returns for a rule: a token of the grammar or a character.
Value(yy_act, text) ==
    CASE Returned[yy_act] = yytext0 -> [char |-> text[1]]
      [] Returned[yy_act] = "("     -> [char |-> 40]
      [] Returned[yy_act] = ")"     -> [char |-> 41]
      [] OTHER                      -> [token |-> Returned[yy_act]]

\* The copy of a text the parser is given, which scanner_finish frees.
scanner_copy(y, str) ==
    [y EXCEPT !.valbuf = Append(@, str), !.strdups = @ + 1, !.ddllval = str]

\* Faulty variant: the character of the trailing context is not given back.
LessNotGivenBack(y, yy_act) == y

\* "undo effects of setting up yytext", yy_cp -= 1, "set up yytext again".
Less(y, yy_act) ==
    IF yy_act \notin TrailingContext THEN y
    ELSE YY_DO_BEFORE_ACTION(Poke(y, y.yy_c_buf_p, y.yy_hold_char),
                             y.yytext_ptr, y.yy_c_buf_p - 1)

\* What the action of a rule does to the statics, its return apart.
Action(y, yy_act) ==
    LET text  == yytext(Less(y, yy_act))
        begun == [Less(y, yy_act) EXCEPT
                     !.yy_start = IF yy_act \in DOMAIN Begins
                                  THEN 1 + 2 * Begins[yy_act] ELSE @]
    IN  CASE yy_act \in Copied   -> scanner_copy(begun, text)
          [] yy_act = DateRule    -> [begun EXCEPT !.strdups = @ + 1, !.ddllval = date]
          [] yy_act = NewlineRule -> [begun EXCEPT !.lineno = @ + 1]
          [] yy_act = EchoRule    -> [begun EXCEPT !.yyout = @ \o text]
          [] OTHER                -> begun

-----------------------------------------------------------------------------
(* yylex.                                                                  *)

RECURSIVE yy_match(_, _, _, _), yy_find_action(_, _, _, _), do_action(_, _), Scan(_)

\* The automaton runs until it jams.
yy_match(y, yy_bp, s, yy_cp) ==
    LET next == Transition(s, At(yy_ec, Char(y, yy_cp)))
    IN  IF At(yy_base, next) # 428
        THEN yy_match(Accepting(y, s, yy_cp), yy_bp, next, yy_cp + 1)
        ELSE yy_find_action(Accepting(y, s, yy_cp), yy_bp, next, yy_cp + 1)

\* The rule of the state, or of the last state that accepted one ("have to
\* back up").
yy_find_action(y, yy_bp, s, yy_cp) ==
    IF At(yy_accept, s) # 0
    THEN do_action(YY_DO_BEFORE_ACTION(y, yy_bp, yy_cp), At(yy_accept, s))
    ELSE do_action(YY_DO_BEFORE_ACTION(y, yy_bp, y.yy_last_accepting_cpos),
                   At(yy_accept, y.yy_last_accepting_state))

\* Faulty variant: at the end of the input yy_c_buf_p stays behind the
\* end-of-buffer character.
EndOfFileStays(y) == y

\* "if some total hoser ... wants to call the scanner after we return the
\* YY_NULL, it'll still work - another YY_NULL will get returned."
EndOfFile(y) == [y EXCEPT !.yy_c_buf_p = y.yytext_ptr]

\* case YY_END_OF_BUFFER: the character matched is a NUL of the text, which
\* the automaton is taken over, or the end of the buffer, behind which there
\* is nothing, or nothing but the text matched before it.
EndOfBuffer(y) ==
    LET b        == y.yy_current_buffer
        held     == Poke(y, y.yy_c_buf_p, y.yy_hold_char)
        y1       == IF Cur(y).yy_buffer_status # YY_BUFFER_NEW THEN held
                    ELSE [held EXCEPT !.yy_n_chars = Cur(y).yy_n_chars,
                                      !.buffers[b].yy_buffer_status = YY_BUFFER_NORMAL]
        matched  == y1.yy_c_buf_p - y1.yytext_ptr - 1
        atNUL    == yy_get_previous_state(
                        [y1 EXCEPT !.yy_c_buf_p = y1.yytext_ptr + matched])
        overNUL  == yy_try_NUL_trans(atNUL.y, atNUL.state)
        atEnd    == yy_get_previous_state([y1 EXCEPT !.yy_c_buf_p = y1.yy_n_chars])
        next     == yy_get_next_buffer(y1)
    IN  IF y1.yy_c_buf_p <= y1.yy_n_chars
        THEN IF overNUL.state # 0
             THEN yy_match([overNUL.y EXCEPT !.yy_c_buf_p = @ + 1], y1.yytext_ptr,
                           overNUL.state, overNUL.y.yy_c_buf_p + 1)
             ELSE yy_find_action(overNUL.y, y1.yytext_ptr, atNUL.state,
                                 overNUL.y.yy_c_buf_p)
        ELSE CASE next = EOB_ACT_END_OF_FILE ->
                      do_action(EndOfFile(y1), YY_STATE_EOF(YY_START(y1)))
               [] next = EOB_ACT_LAST_MATCH ->
                      yy_find_action(atEnd.y, y1.yytext_ptr, atEnd.state, y1.yy_n_chars)
               [] OTHER -> [y |-> y1, ret |-> YY_FATAL_ERROR]

\* The switch: a rule whose action returns nothing is followed by the next
\* round of "while ( 1 )"; "must back up" for no rule at all.
do_action(y, yy_act) ==
    CASE yy_act \in 1..84 /\ Returned[yy_act] = Nothing -> Scan(Action(y, yy_act))
      [] yy_act \in 1..84 /\ Returned[yy_act] # Nothing ->
             [y |-> Action(y, yy_act),
              ret |-> Value(yy_act, yytext(Less(y, yy_act)))]
      [] yy_act = 0 ->
             yy_find_action(Poke(y, y.yy_c_buf_p, y.yy_hold_char), y.yytext_ptr,
                            y.yy_last_accepting_state, y.yy_last_accepting_cpos)
      [] yy_act = YY_END_OF_BUFFER -> EndOfBuffer(y)
      [] yy_act \in {YY_STATE_EOF(c) : c \in INITIAL..endquote} ->
             [y |-> y, ret |-> YY_NULL]
      [] OTHER -> [y |-> y, ret |-> YY_FATAL_ERROR]

\* Faulty variant: the NUL that ends yytext stays in the buffer.
ScanOverNUL(y) == yy_match(y, y.yy_c_buf_p, y.yy_start, y.yy_c_buf_p)

\* One round of "while ( 1 )": the character held comes back into the
\* buffer and the automaton starts behind the text matched last.
Scan(y) ==
    yy_match(Poke(y, y.yy_c_buf_p, y.yy_hold_char), y.yy_c_buf_p, y.yy_start,
             y.yy_c_buf_p)

\* yylex(), ddllex by its prefix, for a scanner that has a buffer: it
\* returns the statics and the value of the next token, YY_NULL at the end.
yylex(y) ==
    IF y.yy_init = 0 THEN Scan(y)
    ELSE Scan(yy_load_buffer_state(
                  [y EXCEPT !.yy_init = 0, !.yy_start = IF @ = 0 THEN 1 ELSE @]))
=============================================================================
