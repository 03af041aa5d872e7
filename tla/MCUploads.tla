------------------------------- MODULE MCUploads -------------------------------
EXTENDS Uploads
\* A title is a sequence of words: "beach", the title of its thumbnail, and another
MCTitles == {<<"beach">>, <<"beach", "thumbnail">>, <<"city">>}
================================================================================
